---- MODULE Spec2Model ----
(***************************************************************************)
(* HBC portal: credit ledger, Stripe / Calendly webhook reconciliation and *)
(* single-use booking passes.  Every database call of a request handler is *)
(* one atomic step; handlers share nothing but the database tables.        *)
(***************************************************************************)
EXTENDS Integers, Sequences, FiniteSets, TLC

\* ------------------------------------------------------------------ bounds
\* requests received per endpoint over a run
MaxStripeDeliveries == 2
MaxRedeemRequests == 2
MaxAdminSends == 1
MaxCalendlyDeliveries == 2
MaxCreditRequests == 2
MaxPatchRequests == 2
MaxWaiverRequests == 2
\* requests received over a run, all endpoints together
MaxRequests == 2
MaxTime == 2

\* 30 days (route.ts:288), on the model's clock
PassTtl == 1

NULL == "null"
NoTime == -1
NaN == -999
NoMeta == -998
\* a finite amount that is not an integer, such as 1.5
Fraction == -997

\* ------------------------------------------------------------------ SignNow documents
\* the document SignNow returns: top-level status, the is_completed flag, and the
\* statuses of its field invites, of its signers and of its signatures
Doc(status, is_completed, field_invites, signers, signatures) ==
  [status |-> status, is_completed |-> is_completed, field_invites |-> field_invites,
   signers |-> signers, signatures |-> signatures]

\* a document copied and sent, and the same document after its signer is done
PendingDoc == Doc("pending", FALSE, <<"pending">>, <<>>, <<>>)
CompletedDoc == Doc("completed", TRUE, <<"fulfilled">>, <<>>, <<>>)

DocStatuses == {"", "pending", "completed", "fulfilled", "unsigned"}
DocShapes ==
  {Doc(st, fl, fi, sg, sn) :
     st \in DocStatuses, fl \in BOOLEAN,
     fi \in {<<>>, <<"fulfilled">>, <<"pending">>},
     sg \in {<<>>, <<"signed">>},
     sn \in {<<>>, <<"signed">>, <<"signed", "">>}}

\* String.prototype.includes over the statuses above
Includes(s, word) == s = word \/ (s = "unsigned" /\ word = "signed")

DoneWords == {"fulfilled", "completed", "signed"}

\* looksSigned of the reconciliation job
looksSignedOf(doc) ==
  \/ doc.status \in {"completed", "signed"}
  \/ doc.is_completed
  \/ /\ Len(doc.field_invites) > 0
     /\ \A i \in DOMAIN doc.field_invites : doc.field_invites[i] \in DoneWords
  \/ /\ Len(doc.signatures) > 0
     /\ \E i \in DOMAIN doc.signatures : doc.signatures[i] \in DoneWords

\* looksCompleted of the admin's check
looksCompletedOf(doc) ==
  \/ \E w \in DoneWords : Includes(doc.status, w)
  \/ doc.status = "complete"
  \/ doc.is_completed
  \/ /\ Len(doc.signers) > 0
     /\ \A i \in DOMAIN doc.signers :
          Includes(doc.signers[i], "signed") \/ Includes(doc.signers[i], "completed")

\* looksCompleted in its variant reading field invites and signatures
looksCompletedByInvites(doc) ==
  \/ \E w \in DoneWords : Includes(doc.status, w)
  \/ /\ Len(doc.field_invites) > 0
     /\ \A i \in DOMAIN doc.field_invites : \E w \in DoneWords : Includes(doc.field_invites[i], w)
  \/ /\ Len(doc.signatures) > 0
     /\ \A i \in DOMAIN doc.signatures : \E w \in DoneWords : Includes(doc.signatures[i], w)
  \/ doc.is_completed
NoToken == 0

\* ------------------------------------------------------------------ state
VARIABLES
  now,             \* Date.now()
  members,         \* table members: the set of (normalized, unique) emails; the email stands for the row id
  ledger,          \* table credits_ledger, in insertion order
  stripe_events,   \* table stripe_events: event ids
  guest_profiles,  \* table guest_profiles: email_normalized -> last_stripe_session_id
  booking_passes,  \* table booking_passes, in insertion order (row id = position)
  outbox,          \* mails handed to the send-booking-pass function
  rsvps,           \* table rsvps: calendly_invitee_uri -> row
  issues,          \* table calendly_booking_issues: the rows, in insertion order
  waivers,         \* table waivers: calendly_invitee_uri -> row
  signnow,         \* SignNow: the documents copied from the waiver template, by document id
  sd,              \* Stripe webhook deliveries being handled
  rq,              \* redeem-booking-pass requests being handled
  ad,              \* admin send-booking-link requests being handled
  cd,              \* Calendly webhook deliveries being handled
  job,             \* the run of waiver-sync-signed being made, or the last one made
  resolutions,     \* columns resolution, notes, handled_at of calendly_booking_issues, by the row's invitee uri, once set
  calendly_booking_issue_history, \* table calendly_booking_issue_history, in insertion order
  pd,              \* PATCH requests of the issues endpoint being handled
  started,         \* requests received so far, per endpoint
  answered,        \* the response given last
  hist             \* what has happened so far, for the properties only

db == <<now, members, ledger, stripe_events, guest_profiles, booking_passes, outbox>>
desk == <<resolutions, calendly_booking_issue_history, pd>>
bookings == <<rsvps, issues, waivers, signnow, job, desk>>
vars == <<db, bookings, sd, rq, ad, cd, started, answered, hist>>

\* the handler slots of an endpoint: two requests of one endpoint run concurrently,
\* further ones are handled when a slot is free
StripeIds == {1, 2}
RedeemIds == {1, 2}
AdminIds == {1, 2}
CalendlyIds == {1, 2}
PatchIds == {1, 2}

\* ------------------------------------------------------------------ helpers
Range(s) == {s[i] : i \in DOMAIN s}

RECURSIVE SumSeq(_)
SumSeq(s) == IF s = <<>> THEN 0 ELSE Head(s) + SumSeq(Tail(s))

\* email.trim().toLowerCase()
Normalize(email) ==
  CASE email = "A@x " -> "a@x"
    [] email = " " -> ""
    [] OTHER -> email

\* PRICE_TO_CREDITS[priceId] ?? 0
PRICE_TO_CREDITS(priceId) ==
  CASE priceId = "price_45_onetime" -> 1
    [] priceId = "price_33_monthly" -> 1
    [] priceId = "price_66_monthly" -> 4
    [] OTHER -> 0

\* credits += per * qty over the line items
LineCredits(lines) ==
  SumSeq([i \in DOMAIN lines |-> PRICE_TO_CREDITS(lines[i].price) * lines[i].quantity])

\* ------------------------------------------------------------------ Stripe events
CheckoutA ==
  [id |-> "evt_A", type |-> "checkout.session.completed", object |-> "cs_A",
   mode |-> "payment", payment_status |-> "paid", email |-> "a@x",
   meta_credits |-> NoMeta, lines |-> <<[price |-> "price_45_onetime", quantity |-> 1]>>,
   purchase_type |-> NULL, amount_total |-> 4500]
CheckoutB ==
  [id |-> "evt_B", type |-> "checkout.session.completed", object |-> "cs_B",
   mode |-> "payment", payment_status |-> "paid", email |-> "a@x",
   meta_credits |-> 1, lines |-> <<>>,
   purchase_type |-> "guest_pass", amount_total |-> 4500]
CheckoutSub ==
  [id |-> "evt_S", type |-> "checkout.session.completed", object |-> "cs_S",
   mode |-> "subscription", payment_status |-> "paid", email |-> "a@x",
   meta_credits |-> NoMeta, lines |-> <<[price |-> "price_33_monthly", quantity |-> 1]>>,
   purchase_type |-> NULL, amount_total |-> 3300]
InvoicePaid ==
  [id |-> "evt_I", type |-> "invoice.payment_succeeded", object |-> "in_1",
   mode |-> NULL, payment_status |-> "paid", email |-> "a@x",
   meta_credits |-> NoMeta, lines |-> <<[price |-> "price_33_monthly", quantity |-> 1]>>,
   purchase_type |-> NULL, amount_total |-> 3300]
OtherEvent ==
  [id |-> "evt_O", type |-> "customer.updated", object |-> "cus_1",
   mode |-> NULL, payment_status |-> NULL, email |-> "a@x",
   meta_credits |-> NoMeta, lines |-> <<>>,
   purchase_type |-> NULL, amount_total |-> 0]

CheckoutC ==
  [id |-> "evt_C", type |-> "checkout.session.completed", object |-> "cs_C",
   mode |-> "payment", payment_status |-> "paid", email |-> "c@x",
   meta_credits |-> -1, lines |-> <<>>,
   purchase_type |-> "guest_pass", amount_total |-> 4500]

StripeEvents == {CheckoutA, CheckoutB, CheckoutC, CheckoutSub, InvoicePaid, OtherEvent}

\* paid one-time checkouts the handler cannot credit: no metadata, no mapped line
\* item and no guest-pass fallback; and a session without a customer email
CheckoutNoCredits ==
  [id |-> "evt_N", type |-> "checkout.session.completed", object |-> "cs_N",
   mode |-> "payment", payment_status |-> "paid", email |-> "a@x",
   meta_credits |-> NoMeta, lines |-> <<[price |-> "price_other", quantity |-> 1]>>,
   purchase_type |-> NULL, amount_total |-> 2000]
CheckoutNoEmail ==
  [id |-> "evt_E", type |-> "checkout.session.completed", object |-> "cs_E",
   mode |-> "payment", payment_status |-> "paid", email |-> NULL,
   meta_credits |-> 1, lines |-> <<>>,
   purchase_type |-> "guest_pass", amount_total |-> 4500]

UncreditedEvents == {CheckoutNoCredits, CheckoutNoEmail}

NoEvent == [id |-> NULL]

\* Number.parseInt(String(metaCreditsRaw), 10), or 0 without metadata
MetaCredits(session) ==
  IF session.meta_credits # NoMeta THEN session.meta_credits ELSE 0

\* !Number.isFinite(credits) || credits <= 0
Invalid(credits) == credits = NaN \/ credits <= 0

\* the line items are fetched only when the metadata gives no valid count
NeedsLineItems(session) == Invalid(MetaCredits(session))

\* a computation that ends without credits instead of throwing
CheckoutCredits_Silent(session) ==
  LET c1 == MetaCredits(session)
      c2 == IF Invalid(c1) THEN LineCredits(session.lines) ELSE c1
      c3 == IF Invalid(c2) /\ (session.purchase_type = "guest_pass" \/ session.amount_total = 4500)
            THEN 1 ELSE c2
  IN IF Invalid(c3) THEN -1 ELSE c3

\* credits of a one-time checkout session; 0 stands for the final throw
CheckoutCredits(session) ==
  LET c1 == MetaCredits(session)
      c2 == IF Invalid(c1) THEN LineCredits(session.lines) ELSE c1
      c3 == IF Invalid(c2) /\ (session.purchase_type = "guest_pass" \/ session.amount_total = 4500)
            THEN 1 ELSE c2
  IN IF Invalid(c3) THEN 0 ELSE c3

\* ------------------------------------------------------------------ tables
Entry(member, type, qty, reason) ==
  [member_id |-> member, entry_type |-> type, quantity |-> qty, reason |-> reason]

CheckoutReason(session, eventId) ==
  [text |-> "stripe checkout.session.completed", session |-> session, event |-> eventId, invitee |-> NULL]
InvoiceReason(invoiceId) ==
  [text |-> "Stripe invoice", session |-> invoiceId, event |-> NULL, invitee |-> NULL]

\* reason ILIKE %id%
ReasonContains(reason, id) == id # NULL /\ id \in {reason.session, reason.event, reason.invitee}

\* alreadyProcessed
alreadyProcessed(eventId) == eventId \in stripe_events

\* the match written as .eq("reason", stripeSessionId)
creditGrantExistsForSession_Eq(memberId, stripeSessionId) ==
  \E i \in DOMAIN ledger :
    /\ ledger[i].member_id = memberId
    /\ ledger[i].entry_type = "grant"
    /\ ledger[i].reason.text = stripeSessionId

\* creditGrantExistsForSession
creditGrantExistsForSession(memberId, stripeSessionId) ==
  \E i \in DOMAIN ledger :
    /\ ledger[i].member_id = memberId
    /\ ledger[i].entry_type = "grant"
    /\ ReasonContains(ledger[i].reason, stripeSessionId)

\* rows of booking_passes with a given stripe_session_id
PassesOfSession(sessionId) ==
  {i \in DOMAIN booking_passes : booking_passes[i].stripe_session_id = sessionId}

\* a fresh random token: no row and no mail holds it
FreshToken == Len(booking_passes) + 1

\* sha256Hex(token)
sha256Hex(token) == 0 - token

Pass(token, tokenHash, email, sessionId, expiresAt, memberId) ==
  [token |-> token, token_hash |-> tokenHash, email |-> email,
   stripe_session_id |-> sessionId, expires_at |-> expiresAt,
   used_at |-> NoTime, member_id |-> memberId]

\* the call of the send-booking-pass function: the mail goes out, the function
\* answers a non-2xx status, or the fetch itself is rejected
MailOutcomes == {"sent", "refused", "unreachable"}

Mail(to, token) == [to |-> to, token |-> token]

\* ------------------------------------------------------------------ requests
\* the response of a handler: endpoint, status and body, with the event id or the
\* token the request was about and the redirect target if any
Response(kind, status, body, event, token, redirect, late) ==
  [kind |-> kind, status |-> status, body |-> body, event |-> event, token |-> token,
   redirect |-> redirect, late |-> late]
NoResponse == Response(NULL, 0, NULL, NULL, NoToken, NULL, FALSE)

\* requests are handled in the first free slot
FirstIdle(slots) == CHOOSE i \in DOMAIN slots : slots[i].pc = "idle" /\ \A j \in DOMAIN slots : j < i => slots[j].pc # "idle"
HasIdle(slots) == \E i \in DOMAIN slots : slots[i].pc = "idle"

Started(kind) == started' = [started EXCEPT ![kind] = @ + 1]

TotalStarted ==
  started.stripe + started.redeem + started.admin + started.calendly + started.credits + started.patch +
  started.waiver

\* a further request of an endpoint can be received
Receivable(kind, max) == started[kind] < max /\ TotalStarted < MaxRequests

\* insert ... on conflict (key) do update
Upsert(table, key, row) ==
  [k \in DOMAIN table \cup {key} |-> IF k = key THEN row ELSE table[k]]


\* ------------------------------------------------------------------ Stripe webhook
notStripe == <<rq, ad, cd, bookings>>

IdleDelivery ==
  [pc |-> "idle", ev |-> NoEvent, memberId |-> NULL, credits |-> 0, token |-> NoToken,
   body |-> NULL, late |-> FALSE]

\* a handler that takes no checkout session for a subscription's
SubscriptionCheckout_Never(session) == FALSE

\* if (session.mode === "subscription"): "Subscription checkout ignored"
SubscriptionCheckout(session) == session.mode = "subscription"

IsPaidOneTime(e) ==
  /\ e.type = "checkout.session.completed"
  /\ e.mode # "subscription"
  /\ e.payment_status = "paid"

\* the responses given after the grant stage of the checkout branch
PastGrantBodies == {"OK", "OK (pass already existed)", "Handler Error: send-booking-pass"}

\* a delivery of the same event is being handled
InFlight(e) == \E d \in StripeIds : sd[d].ev = e

\* the response of delivery record r, which frees its slot
StripeAnswer(d, r, status, body) ==
  /\ sd' = [sd EXCEPT ![d] = IdleDelivery]
  /\ answered' = Response("stripe", status, body, r.ev.id, NoToken, NULL, r.late)

StripeReturned(r, body) ==
  IF body \in PastGrantBodies THEN hist.pastGrant \cup {r.ev.id} ELSE hist.pastGrant

Goto(d, pc) == sd' = [sd EXCEPT ![d].pc = pc]

\* POST up to the first database write: signature check, alreadyProcessed, the
\* event's fields, the Stripe API reads and the credit computation
StripeReceive(e, apiOk) ==
  /\ Receivable("stripe", MaxStripeDeliveries)
  /\ HasIdle(sd)
  /\ Started("stripe")
  /\ LET d == FirstIdle(sd)
         r == [IdleDelivery EXCEPT !.ev = e, !.late = e.id \in hist.pastGrant]
         proceeds == [hist EXCEPT !.proceeded[e.id] = @ + 1,
                                  !.overlapped = IF InFlight(e) THEN @ \cup {e.id} ELSE @]
         throw(body) == /\ StripeAnswer(d, r, 500, body)
                        /\ hist' = proceeds
         mark(body) == /\ sd' = [sd EXCEPT ![d] = [r EXCEPT !.pc = "mark", !.body = body]]
                       /\ hist' = proceeds
                       /\ UNCHANGED answered
         member(credits) == /\ sd' = [sd EXCEPT ![d] = [r EXCEPT !.pc = "member_select", !.credits = credits]]
                            /\ hist' = proceeds
                            /\ UNCHANGED answered
     IN
     IF alreadyProcessed(e.id)
       THEN /\ StripeAnswer(d, r, 200, "Already processed")
            /\ UNCHANGED hist
     ELSE IF e.type = "checkout.session.completed" THEN
       IF SubscriptionCheckout(e) THEN mark("Subscription checkout ignored")
       ELSE IF e.payment_status # NULL /\ e.payment_status # "paid" THEN mark("Not paid")
       ELSE IF e.email = NULL THEN throw("Handler Error: No customer email on checkout session")
       ELSE IF NeedsLineItems(e) /\ ~apiOk THEN throw("Handler Error: stripe api")
       ELSE IF CheckoutCredits(e) = 0 THEN throw("Handler Error: Unable to compute credits")
       ELSE IF CheckoutCredits(e) > 0 THEN member(CheckoutCredits(e))
       ELSE mark("Ignored")
     ELSE IF e.type = "invoice.payment_succeeded" THEN
       IF ~apiOk THEN throw("Handler Error: stripe api")
       ELSE IF e.email = NULL THEN throw("Handler Error: No customer email on invoice")
       ELSE IF LineCredits(e.lines) > 0 THEN member(LineCredits(e.lines))
       ELSE mark("OK")
     ELSE mark("Ignored")
  /\ UNCHANGED <<db, notStripe>>

AfterMember(e) == IF e.type = "checkout.session.completed" THEN "grant_check" ELSE "grant"

\* getOrCreateMemberByEmail: the select
StripeMemberSelect(d) ==
  /\ sd[d].pc = "member_select"
  /\ LET emailNormalized == Normalize(sd[d].ev.email) IN
     IF emailNormalized \in members
     THEN sd' = [sd EXCEPT ![d].pc = AfterMember(sd[d].ev), ![d].memberId = emailNormalized]
     ELSE Goto(d, "member_insert")
  /\ UNCHANGED <<db, notStripe, started, answered, hist>>

\* getOrCreateMemberByEmail: the insert; members.email is unique, createError is thrown
StripeMemberInsert(d) ==
  /\ sd[d].pc = "member_insert"
  /\ LET emailNormalized == Normalize(sd[d].ev.email) IN
     IF emailNormalized \in members
     THEN /\ StripeAnswer(d, sd[d], 500, "Handler Error: duplicate key members.email")
          /\ UNCHANGED members
     ELSE /\ members' = members \cup {emailNormalized}
          /\ sd' = [sd EXCEPT ![d].pc = AfterMember(sd[d].ev), ![d].memberId = emailNormalized]
          /\ UNCHANGED answered
  /\ UNCHANGED <<now, ledger, stripe_events, guest_profiles, booking_passes, outbox, notStripe, started, hist>>

\* const alreadyGranted = await creditGrantExistsForSession(memberId, session.id)
StripeGrantCheck(d) ==
  /\ sd[d].pc = "grant_check"
  /\ IF creditGrantExistsForSession(sd[d].memberId, sd[d].ev.object)
     THEN Goto(d, "guest_profile")
     ELSE Goto(d, "grant")
  /\ UNCHANGED <<db, notStripe, started, answered, hist>>

\* the quantity inserted with its sign reversed
grantCredits_Negated(memberId, qty, reason) ==
  IF qty = 0 THEN ledger' = ledger
  ELSE ledger' = Append(ledger, Entry(memberId, "grant", 0 - qty, reason))

\* one credit fewer than bought is inserted
grantCredits_OneLess(memberId, qty, reason) ==
  IF qty = 0 THEN ledger' = ledger
  ELSE ledger' = Append(ledger, Entry(memberId, "grant", qty - 1, reason))

\* the member's latest entry is overwritten with the new grant instead of a row being inserted
grantCredits_Overwriting(memberId, qty, reason) ==
  IF qty = 0 THEN ledger' = ledger
  ELSE IF \E i \in DOMAIN ledger : ledger[i].member_id = memberId
  THEN LET i == CHOOSE i \in DOMAIN ledger :
                  /\ ledger[i].member_id = memberId
                  /\ \A j \in DOMAIN ledger : ledger[j].member_id = memberId => j <= i
       IN ledger' = [ledger EXCEPT ![i] = Entry(memberId, "grant", qty, reason)]
  ELSE ledger' = Append(ledger, Entry(memberId, "grant", qty, reason))

\* grantCredits
grantCredits(memberId, qty, reason) ==
  IF qty = 0 THEN ledger' = ledger
  ELSE ledger' = Append(ledger, Entry(memberId, "grant", qty, reason))

StripeGrant(d) ==
  /\ sd[d].pc = "grant"
  /\ LET e == sd[d].ev IN
     IF e.type = "checkout.session.completed"
     THEN /\ grantCredits(sd[d].memberId, sd[d].credits, CheckoutReason(e.object, e.id))
          /\ Goto(d, "guest_profile")
     ELSE /\ grantCredits(sd[d].memberId, sd[d].credits, InvoiceReason(e.object))
          /\ sd' = [sd EXCEPT ![d].pc = "mark", ![d].body = "OK"]
  /\ UNCHANGED <<now, members, stripe_events, guest_profiles, booking_passes, outbox, notStripe, started, answered, hist>>

\* guest_profiles upsert on email_normalized
StripeGuestProfile(d) ==
  /\ sd[d].pc = "guest_profile"
  /\ guest_profiles' =
       [k \in DOMAIN guest_profiles \cup {Normalize(sd[d].ev.email)} |->
          IF k = Normalize(sd[d].ev.email) THEN sd[d].ev.object ELSE guest_profiles[k]]
  /\ Goto(d, "pass_select")
  /\ UNCHANGED <<now, members, ledger, stripe_events, booking_passes, outbox, notStripe, started, answered, hist>>

\* existingPass: maybeSingle gives data only when exactly one row matches
StripePassSelect(d) ==
  /\ sd[d].pc = "pass_select"
  /\ LET rows == PassesOfSession(sd[d].ev.object) IN
     IF Cardinality(rows) = 1
     THEN IF booking_passes[CHOOSE i \in rows : TRUE].member_id = NULL
          THEN Goto(d, "pass_backfill")
          ELSE sd' = [sd EXCEPT ![d].pc = "mark", ![d].body = "OK (pass already existed)"]
     ELSE Goto(d, "pass_insert")
  /\ UNCHANGED <<db, notStripe, started, answered, hist>>

\* backfill member_id of the pass found
StripePassBackfill(d) ==
  /\ sd[d].pc = "pass_backfill"
  /\ booking_passes' =
       [i \in DOMAIN booking_passes |->
          IF booking_passes[i].stripe_session_id = sd[d].ev.object /\ booking_passes[i].member_id = NULL
          THEN [booking_passes[i] EXCEPT !.member_id = sd[d].memberId]
          ELSE booking_passes[i]]
  /\ sd' = [sd EXCEPT ![d].pc = "mark", ![d].body = "OK (pass already existed)"]
  /\ UNCHANGED <<now, members, ledger, stripe_events, guest_profiles, outbox, notStripe, started, answered, hist>>

\* the booking pass minted by the checkout webhook
StripeMintedPass(d) ==
  Pass(FreshToken, NoToken, sd[d].ev.email, sd[d].ev.object, now + PassTtl, sd[d].memberId)

StripePassInsert(d) ==
  /\ sd[d].pc = "pass_insert"
  /\ booking_passes' = Append(booking_passes, StripeMintedPass(d))
  /\ sd' = [sd EXCEPT ![d].pc = "send_email", ![d].token = FreshToken]
  /\ UNCHANGED <<now, members, ledger, stripe_events, guest_profiles, outbox, notStripe, started, answered, hist>>

\* fetch(send-booking-pass): a rejected fetch is thrown, the status is not read
StripeSendEmail(d, outcome) ==
  /\ sd[d].pc = "send_email"
  /\ outbox' = IF outcome = "sent" THEN outbox \cup {Mail(sd[d].ev.email, sd[d].token)} ELSE outbox
  /\ IF outcome = "unreachable"
     THEN /\ StripeAnswer(d, sd[d], 500, "Handler Error: send-booking-pass")
          /\ hist' = [hist EXCEPT !.pastGrant = StripeReturned(sd[d], "Handler Error: send-booking-pass")]
     ELSE /\ sd' = [sd EXCEPT ![d].pc = "mark", ![d].body = "OK"]
          /\ UNCHANGED <<answered, hist>>
  /\ UNCHANGED <<now, members, ledger, stripe_events, guest_profiles, booking_passes, notStripe, started>>

\* markProcessed
markProcessed(eventId) == stripe_events' = stripe_events \cup {eventId}

\* markProcessed, then the response
StripeMark(d) ==
  /\ sd[d].pc = "mark"
  /\ markProcessed(sd[d].ev.id)
  /\ StripeAnswer(d, sd[d], 200, sd[d].body)
  /\ hist' = [hist EXCEPT !.pastGrant = StripeReturned(sd[d], sd[d].body)]
  /\ UNCHANGED <<now, members, ledger, guest_profiles, booking_passes, outbox, notStripe, started>>

\* the steps of the deliveries being handled
StripeSteps ==
  \E d \in StripeIds :
    \/ StripeMemberSelect(d)
    \/ StripeMemberInsert(d)
    \/ StripeGrantCheck(d)
    \/ StripeGrant(d)
    \/ StripeGuestProfile(d)
    \/ StripePassSelect(d)
    \/ StripePassBackfill(d)
    \/ StripePassInsert(d)
    \/ \E outcome \in MailOutcomes : StripeSendEmail(d, outcome)
    \/ StripeMark(d)

\* deliveries of these events
StripeStepOf(events) ==
  \/ \E e \in events, apiOk \in BOOLEAN : StripeReceive(e, apiOk)
  \/ StripeSteps

StripeStep == StripeStepOf(StripeEvents)

\* ------------------------------------------------------------------ redeem-booking-pass
\* the Edge function answers a redirect (302); the /api/booking-pass/redeem route
\* answers 200 with redirect_url, which the /book page follows
notRedeem == <<sd, ad, cd, bookings>>

IdleRequest ==
  [pc |-> "idle", variant |-> NULL, token |-> NoToken, passId |-> 0, email |-> NULL, late |-> FALSE]

RedeemAnswer(r, q, status, body, redirect) ==
  /\ rq' = [rq EXCEPT ![r] = IdleRequest]
  /\ answered' = Response("redeem", status, body, NULL, q.token, redirect, q.late)

\* rows of booking_passes with a given token
PassesOfToken(token) == {i \in DOMAIN booking_passes : booking_passes[i].token = token}

\* new Date(pass.expires_at).getTime() <= Date.now(); new Date(null) is the epoch
LinkExpired(pass) == (IF pass.expires_at = NoTime THEN 0 ELSE pass.expires_at) <= now

\* the used and expired checks swapped
PassCheck_ExpiryFirst(pass) ==
  IF LinkExpired(pass) THEN 410
  ELSE IF pass.used_at # NoTime THEN 409
  ELSE 0

\* the checks of a fetched pass, in the handler's order: 0 to go on, or the status answered
PassCheck(pass) ==
  IF pass.used_at # NoTime THEN 409
  ELSE IF LinkExpired(pass) THEN 410
  ELSE 0

RefusalBody(status) ==
  CASE status = 409 -> "This booking link has already been used."
    [] status = 410 -> "This booking link has expired."
    [] OTHER -> "Invalid booking link"

\* the tokens a visitor can present: none, one from a mailed link, or one no row holds
PresentableTokens == {NoToken, Len(booking_passes) + 1} \cup {m.token : m \in outbox}

\* 1) Fetch pass
RedeemFetch(variant, token) ==
  /\ Receivable("redeem", MaxRedeemRequests)
  /\ HasIdle(rq)
  /\ Started("redeem")
  /\ LET r == FirstIdle(rq)
         q == [IdleRequest EXCEPT !.variant = variant, !.token = token, !.late = token \in hist.redirected]
         rows == PassesOfToken(token)
     IN
     IF token = NoToken THEN RedeemAnswer(r, q, 400, "Missing token", NULL)
     ELSE IF Cardinality(rows) # 1 THEN RedeemAnswer(r, q, 404, RefusalBody(404), NULL)
     ELSE LET id == CHOOSE i \in rows : TRUE
              pass == booking_passes[id]
          IN IF PassCheck(pass) # 0
             THEN RedeemAnswer(r, q, PassCheck(pass), RefusalBody(PassCheck(pass)), NULL)
             ELSE /\ rq' = [rq EXCEPT ![r] = [q EXCEPT !.pc = "update", !.passId = id, !.email = pass.email]]
                  /\ UNCHANGED answered
  /\ UNCHANGED <<db, notRedeem, hist>>

\* UPDATE booking_passes SET used_at = <t> with no condition on used_at
MarkUsed_Unconditional(passes, rows, t) ==
  [i \in DOMAIN passes |-> IF i \in rows THEN [passes[i] EXCEPT !.used_at = t] ELSE passes[i]]

\* UPDATE booking_passes SET used_at = <t> WHERE <rows> AND used_at IS NULL
MarkUsed(passes, rows, t) ==
  [i \in DOMAIN passes |->
     IF i \in rows /\ passes[i].used_at = NoTime
     THEN [passes[i] EXCEPT !.used_at = t]
     ELSE passes[i]]

\* the rows among those an update addresses that are used already
UsedAmong(rows) == {i \in rows : booking_passes[i].used_at # NoTime}

\* 2) Mark used, 3) redirect: the update's row count is not read
RedeemUpdate(r) ==
  /\ rq[r].pc = "update"
  /\ booking_passes' = MarkUsed(booking_passes, {rq[r].passId}, now)
  /\ RedeemAnswer(r, rq[r], IF rq[r].variant = "edge" THEN 302 ELSE 200, NULL, rq[r].email)
  /\ hist' = [hist EXCEPT !.redirected = @ \cup {rq[r].token},
                          !.twice = IF rq[r].token \in hist.redirected THEN @ \cup {rq[r].token} ELSE @,
                          !.kept = @ \cup UsedAmong({rq[r].passId})]
  /\ UNCHANGED <<now, members, ledger, stripe_events, guest_profiles, outbox, notRedeem, started>>

RedeemStep ==
  \/ \E variant \in {"edge", "api"}, token \in PresentableTokens : RedeemFetch(variant, token)
  \/ \E r \in RedeemIds : RedeemUpdate(r)

\* ------------------------------------------------------------------ admin: send booking link
notAdmin == <<sd, rq, cd, bookings>>

\* the loop without its refund branch: refund rows are not added back
BalanceOf_NoRefund(rows, memberId) ==
  SumSeq([i \in DOMAIN rows |->
            IF rows[i].member_id # memberId THEN 0
            ELSE IF rows[i].entry_type = "grant" THEN rows[i].quantity
            ELSE IF rows[i].entry_type = "redeem" THEN 0 - rows[i].quantity
            ELSE 0])

\* balance of a member over its ledger rows (send/route.ts:179-183)
RECURSIVE BalanceOf(_, _)
BalanceOf(rows, memberId) ==
  IF rows = <<>> THEN 0
  ELSE LET r == Head(rows)
           delta == IF r.member_id # memberId THEN 0
                    ELSE IF r.entry_type \in {"grant", "refund"} THEN r.quantity
                    ELSE IF r.entry_type = "redeem" THEN 0 - r.quantity
                    ELSE 0
       IN delta + BalanceOf(Tail(rows), memberId)

IdleAdmin ==
  [pc |-> "idle", variant |-> NULL, email |-> NULL, member_id |-> NULL, session |-> NULL,
   token |-> NoToken]

AdminAnswer(a, q, status, body) ==
  /\ ad' = [ad EXCEPT ![a] = IdleAdmin]
  /\ answered' = Response("admin-send", status, body, NULL, q.token, NULL, FALSE)

\* both versions: the session, the is_admin check and the body
AdminSendStart(variant, caller, emailRaw, memberId, sessionId) ==
  /\ Receivable("admin", MaxAdminSends)
  /\ HasIdle(ad)
  /\ Started("admin")
  /\ LET a == FirstIdle(ad)
         q == [IdleAdmin EXCEPT !.variant = variant, !.email = Normalize(emailRaw)]
     IN
     IF caller = "anonymous" THEN AdminAnswer(a, q, 401, "Unauthorized")
     ELSE IF caller # "admin" THEN AdminAnswer(a, q, 403, "Forbidden")
     ELSE IF Normalize(emailRaw) = ""
       THEN AdminAnswer(a, q, 400, IF variant = "revoking" THEN "email required" ELSE "Missing email")
     ELSE /\ ad' = [ad EXCEPT ![a] =
                      IF variant = "revoking"
                      THEN [q EXCEPT !.pc = "revoke", !.member_id = memberId]
                      ELSE [q EXCEPT !.pc = "member", !.session = sessionId]]
          /\ UNCHANGED answered
  /\ UNCHANGED <<db, notAdmin, hist>>

\* first version: "revoke any previous unused passes for this email"
AdminRevoke(a) ==
  /\ ad[a].pc = "revoke"
  /\ booking_passes' =
       MarkUsed(booking_passes, {i \in DOMAIN booking_passes : booking_passes[i].email = ad[a].email}, now)
  /\ ad' = [ad EXCEPT ![a].pc = "insert_hash"]
  /\ hist' = [hist EXCEPT !.kept = @ \cup UsedAmong({i \in DOMAIN booking_passes : booking_passes[i].email = ad[a].email})]
  /\ UNCHANGED <<now, members, ledger, stripe_events, guest_profiles, outbox, notAdmin, started, answered>>

\* first version: insert { token_hash, email, member_id }; the row has no token,
\* which the table accepts or refuses ("token is NOT NULL", line 199)
AdminInsertHash(a, accepted) ==
  /\ ad[a].pc = "insert_hash"
  /\ IF accepted
     THEN /\ booking_passes' =
               Append(booking_passes,
                      Pass(NoToken, sha256Hex(FreshToken), ad[a].email, NULL, NoTime, ad[a].member_id))
          /\ ad' = [ad EXCEPT ![a].pc = "mail", ![a].token = FreshToken]
          /\ UNCHANGED answered
     ELSE /\ AdminAnswer(a, ad[a], 400, "null value in column token")
          /\ UNCHANGED booking_passes
  /\ UNCHANGED <<now, members, ledger, stripe_events, guest_profiles, outbox, notAdmin, started, hist>>

\* second version: the member row by email
AdminMember(a) ==
  /\ ad[a].pc = "member"
  /\ IF ad[a].email \in members
     THEN /\ ad' = [ad EXCEPT ![a].pc = "balance", ![a].member_id = ad[a].email]
          /\ UNCHANGED answered
     ELSE AdminAnswer(a, ad[a], 400, "No member found for this email. Create member / add credit first.")
  /\ UNCHANGED <<db, notAdmin, started, hist>>

\* second version: the member's ledger rows, balance < 1 is refused
AdminBalance(a) ==
  /\ ad[a].pc = "balance"
  /\ IF BalanceOf(ledger, ad[a].member_id) < 1
     THEN AdminAnswer(a, ad[a], 400, "Insufficient credits. Add +1 credit first, then send booking link.")
     ELSE /\ ad' = [ad EXCEPT ![a].pc = "insert_token"]
          /\ UNCHANGED answered
  /\ UNCHANGED <<db, notAdmin, started, hist>>

\* second version: insert { token, token_hash, email, stripe_session_id, expires_at, member_id }
AdminInsertToken(a) ==
  /\ ad[a].pc = "insert_token"
  /\ booking_passes' =
       Append(booking_passes,
              Pass(FreshToken, sha256Hex(FreshToken), ad[a].email, ad[a].session,
                   now + PassTtl, ad[a].member_id))
  /\ ad' = [ad EXCEPT ![a].pc = "mail", ![a].token = FreshToken]
  /\ UNCHANGED <<now, members, ledger, stripe_events, guest_profiles, outbox, notAdmin, started, answered, hist>>

\* the mail: the first version reads resp.ok and has no try/catch, the second
\* reads nothing and catches
AdminMail(a, outcome) ==
  /\ ad[a].pc = "mail"
  /\ outbox' = IF outcome = "sent" THEN outbox \cup {Mail(ad[a].email, ad[a].token)} ELSE outbox
  /\ IF outcome = "unreachable" THEN AdminAnswer(a, ad[a], 500, "fetch failed")
     ELSE IF outcome = "refused" /\ ad[a].variant = "revoking"
       THEN AdminAnswer(a, ad[a], 400, "send-booking-pass failed")
     ELSE AdminAnswer(a, ad[a], 200, "ok")
  /\ UNCHANGED <<now, members, ledger, stripe_events, guest_profiles, booking_passes, notAdmin, started, hist>>

AdminCallers == {"anonymous", "member", "admin"}
AdminEmails == {" ", "a@x", "A@x "}

\* the steps of the requests being handled
AdminSendSteps ==
  \E a \in AdminIds :
    \/ AdminRevoke(a)
    \/ \E accepted \in BOOLEAN : AdminInsertHash(a, accepted)
    \/ AdminMember(a)
    \/ AdminBalance(a)
    \/ AdminInsertToken(a)
    \/ \E outcome \in MailOutcomes : AdminMail(a, outcome)

AdminStep ==
  \/ \E caller \in AdminCallers, emailRaw \in AdminEmails, memberId \in {NULL} :
       AdminSendStart("revoking", caller, emailRaw, memberId, NULL)
  \/ \E caller \in AdminCallers, emailRaw \in AdminEmails, sessionId \in {NULL} :
       AdminSendStart("checking", caller, emailRaw, NULL, sessionId)
  \/ AdminSendSteps

\* ------------------------------------------------------------------ credit ledger procedures
\* The stored procedures are not part of the source tree; they follow the
\* contract of the credit ledger: grant and redeem take a positive quantity, and
\* redeem fails with INSUFFICIENT_CREDITS when the balance would go negative.  A
\* procedure call is one transaction.
CalendlyReason(inviteeUri) ==
  [text |-> "calendly booking", session |-> NULL, event |-> NULL, invitee |-> inviteeUri]
ManualReason(text) ==
  [text |-> text, session |-> NULL, event |-> NULL, invitee |-> NULL]

\* a credit of the member can be redeemed
CanRedeem(memberId) == memberId \in members /\ BalanceOf(ledger, memberId) >= 1

Rsvp(memberId, eventUri, inviteeEmail) ==
  [member_id |-> memberId, calendly_event_uri |-> eventUri, invitee_email |-> inviteeEmail,
   invitee_name |-> NULL, status |-> "booked"]

\* redeem_credit_for_calendly: the outcome for a booking; a booking that has its
\* rsvp row is not redeemed again (dup: the row's id is returned, or the unique
\* constraint on calendly_invitee_uri is reported; "unavailable": the call itself
\* fails and nothing is written)
RedeemForCalendlyOutcome(email, inviteeUri, dup) ==
  IF dup = "unavailable" THEN "UNAVAILABLE"
  ELSE IF inviteeUri \in DOMAIN rsvps THEN (IF dup = "existing" THEN "ok" ELSE "DUPLICATE_RSVP")
  ELSE IF CanRedeem(email) THEN "ok"
  ELSE "INSUFFICIENT_CREDITS"

\* a redemption that does not look for the rsvp of the invitee uri
redeem_credit_for_calendly_Unkeyed(email, eventUri, inviteeUri, dup) ==
  IF dup # "unavailable" /\ CanRedeem(email)
  THEN /\ ledger' = Append(ledger, Entry(email, "redeem", 1, CalendlyReason(inviteeUri)))
       /\ rsvps' = Upsert(rsvps, inviteeUri, Rsvp(email, eventUri, email))
  ELSE UNCHANGED <<ledger, rsvps>>

\* redeem_credit_for_calendly: the rows written
redeem_credit_for_calendly(email, eventUri, inviteeUri, dup) ==
  IF inviteeUri \notin DOMAIN rsvps /\ RedeemForCalendlyOutcome(email, inviteeUri, dup) = "ok"
  THEN /\ ledger' = Append(ledger, Entry(email, "redeem", 1, CalendlyReason(inviteeUri)))
       /\ rsvps' = Upsert(rsvps, inviteeUri, Rsvp(email, eventUri, email))
  ELSE UNCHANGED <<ledger, rsvps>>

\* cancel_rsvp_for_calendly: the outcome; without a booked rsvp row nothing is done
CancelForCalendlyOutcome(inviteeUri) ==
  IF inviteeUri \in DOMAIN rsvps /\ rsvps[inviteeUri].status = "booked" THEN "ok" ELSE "RSVP_NOT_FOUND"

\* a cancellation that refunds the rsvp of the uri whatever its status
cancel_rsvp_for_calendly_Replayable(inviteeUri) ==
  IF inviteeUri \in DOMAIN rsvps
  THEN /\ rsvps' = [rsvps EXCEPT ![inviteeUri].status = "canceled"]
       /\ ledger' = Append(ledger, Entry(rsvps[inviteeUri].member_id, "refund", 1, CalendlyReason(inviteeUri)))
  ELSE UNCHANGED <<ledger, rsvps>>

\* cancel_rsvp_for_calendly: the rsvp is canceled and its credit refunded
cancel_rsvp_for_calendly(inviteeUri) ==
  IF CancelForCalendlyOutcome(inviteeUri) = "ok"
  THEN /\ rsvps' = [rsvps EXCEPT ![inviteeUri].status = "canceled"]
       /\ ledger' = Append(ledger, Entry(rsvps[inviteeUri].member_id, "refund", 1, CalendlyReason(inviteeUri)))
  ELSE UNCHANGED <<ledger, rsvps>>

\* redeem_credit
RedeemCreditOutcome(memberId) ==
  IF memberId \notin members THEN "MEMBER_NOT_FOUND"
  ELSE IF CanRedeem(memberId) THEN "ok"
  ELSE "INSUFFICIENT_CREDITS"

redeem_credit(memberId, reason) ==
  IF RedeemCreditOutcome(memberId) = "ok"
  THEN ledger' = Append(ledger, Entry(memberId, "redeem", 1, ManualReason(reason)))
  ELSE UNCHANGED ledger

\* add_credit
AddCreditOutcome(memberId, amount) ==
  IF memberId \notin members THEN "MEMBER_NOT_FOUND"
  ELSE IF amount = Fraction \/ amount <= 0 THEN "INVALID_QUANTITY"
  ELSE "ok"

add_credit(memberId, amount, reason) ==
  IF AddCreditOutcome(memberId, amount) = "ok"
  THEN ledger' = Append(ledger, Entry(memberId, "grant", amount, ManualReason(reason)))
  ELSE UNCHANGED ledger

\* ------------------------------------------------------------------ Calendly webhook
notCalendly == <<now, members, stripe_events, guest_profiles, outbox, sd, rq, ad, job, desk>>

\* webhook bodies: email, uri, scheduled_event.uri, scheduled_event.start_time, name
\* of the payload and tracking.utm_content
Booking(event, email, uri, eventUri, startTime, name, token) ==
  [event |-> event, email |-> email, uri |-> uri, event_uri |-> eventUri,
   start_time |-> startTime, name |-> name, token |-> token]

\* a guest books with the link of the pass bought by a@x
CreatedGuest == Booking("invitee.created", "g@x", "inv_1", "ev_1", 1, "Guest", 1)
\* the member books without a link
CreatedMember == Booking("invitee.created", "a@x", "inv_2", "ev_1", 1, "Member", NoToken)
CreatedNoStart == Booking("invitee.created", "a@x", "inv_2", "ev_1", NoTime, "Member", NoToken)
CanceledGuest == Booking("invitee.canceled", "g@x", "inv_1", "ev_1", 1, "Guest", NoToken)
RoutingForm == Booking("routing_form_submission.created", NULL, NULL, NULL, NoTime, NULL, NoToken)
InvalidJson == [event |-> "invalid json"]

CalendlyBodies == {CreatedGuest, CreatedMember, CreatedNoStart, CanceledGuest, RoutingForm, InvalidJson}

\* the token of the query string against CALENDLY_WEBHOOK_TOKEN
Gates == {"ok", "wrong", "unset"}

\* no PATCH request is being handled
IdlePatch == [pc |-> "idle", id |-> NULL, resolution |-> NULL, notes |-> NULL, actor |-> NULL]

\* no run of waiver-sync-signed was made
IdleJob ==
  [pc |-> "idle", scanned |-> {}, todo |-> {}, docs |-> <<>>, checked |-> {}, errors |-> {},
   status |-> NULL]

IdleCalendly ==
  [pc |-> "idle", ev |-> [event |-> NULL], redeemEmail |-> NULL, member_id |-> NULL,
   rpc |-> NULL, doc |-> 0]

\* message.includes, with another message
isInsufficientCredits_Renamed(message) == message = "InsufficientCredits"

\* isInsufficientCredits
isInsufficientCredits(message) == message = "INSUFFICIENT_CREDITS"

\* the issue rows of an invitee uri
IssuesOf(uri) == {i \in DOMAIN issues : issues[i].calendly_invitee_uri = uri}

\* the response of delivery record q, which frees its slot; an answered
\* invitee.created delivery that called the procedure is recorded, and so is an
\* invitee uri whose issue row was written over
CalendlyAnswer(c, q, status, body) ==
  /\ cd' = [cd EXCEPT ![c] = IdleCalendly]
  /\ answered' = Response("calendly", status, body, q.ev.uri, q.ev.token, NULL, FALSE)
  /\ hist' = IF q.ev.event = "invitee.created" /\ q.rpc # NULL
             THEN [hist EXCEPT !.created = @ \cup {[uri |-> q.ev.uri, redeemer |-> q.redeemEmail]},
                               !.reissued = IF q.pc = "issue_upsert" /\ IssuesOf(q.ev.uri) # {}
                                            THEN @ \cup {q.ev.uri} ELSE @]
             ELSE hist

CalendlyGoto(c, q, pc) ==
  /\ cd' = [cd EXCEPT ![c] = [q EXCEPT !.pc = pc]]
  /\ UNCHANGED <<answered, hist>>

\* the branch on parsed.eventType, up to the procedure call
CalendlyDispatch(c, q) ==
  LET e == q.ev IN
  IF e.event = "invitee.created" THEN
    IF e.email = NULL \/ e.event_uri = NULL \/ e.uri = NULL \/ e.start_time = NoTime
    THEN CalendlyAnswer(c, q, 200, "ignored: missing_fields_created")
    ELSE CalendlyGoto(c, q, "rpc_redeem")
  ELSE IF e.event = "invitee.canceled" THEN
    IF e.uri = NULL
    THEN CalendlyAnswer(c, q, 200, "ignored: missing_invitee_uri_canceled")
    ELSE CalendlyGoto(c, q, "rpc_cancel")
  ELSE CalendlyAnswer(c, q, 200, "ignored")

\* POST: token gate, body, parseCalendly
CalendlyReceive(gate, body) ==
  /\ Receivable("calendly", MaxCalendlyDeliveries)
  /\ HasIdle(cd)
  /\ Started("calendly")
  /\ LET c == FirstIdle(cd) IN
     IF gate = "unset" THEN CalendlyAnswer(c, [IdleCalendly EXCEPT !.ev = RoutingForm], 500, "Server misconfigured")
     ELSE IF gate = "wrong" THEN CalendlyAnswer(c, [IdleCalendly EXCEPT !.ev = RoutingForm], 200, "ignored: token")
     ELSE IF body = InvalidJson THEN CalendlyAnswer(c, [IdleCalendly EXCEPT !.ev = RoutingForm], 400, "Invalid JSON")
     ELSE LET q == [IdleCalendly EXCEPT !.ev = body, !.redeemEmail = body.email] IN
          IF body.token # NoToken THEN CalendlyGoto(c, q, "pass_lookup")
          ELSE CalendlyDispatch(c, q)
  /\ UNCHANGED <<db, bookings, sd, rq, ad>>

\* passRow.expires_at && Date.parse(passRow.expires_at) <= Date.now()
PassExpired(pass) == pass.expires_at # NoTime /\ pass.expires_at <= now

\* the booking pass of the token: an unused, unexpired pass names the redeeming email
CalendlyPassLookup(c) ==
  /\ cd[c].pc = "pass_lookup"
  /\ LET rows == PassesOfToken(cd[c].ev.token)
         pass == booking_passes[CHOOSE i \in rows : TRUE]
         redeemEmail == IF Cardinality(rows) = 1 /\ pass.used_at = NoTime /\ ~PassExpired(pass) /\ pass.email # NULL
                        THEN Normalize(pass.email)
                        ELSE cd[c].redeemEmail
     IN CalendlyDispatch(c, [cd[c] EXCEPT !.redeemEmail = redeemEmail])
  /\ UNCHANGED <<db, bookings, sd, rq, ad, started>>

\* supabase.rpc("redeem_credit_for_calendly"); on an error other than insufficient
\* credits the handler answers at once
CalendlyRedeem(c, dup) ==
  /\ cd[c].pc = "rpc_redeem"
  /\ LET q == cd[c]
         outcome == RedeemForCalendlyOutcome(q.redeemEmail, q.ev.uri, dup)
         called == [q EXCEPT !.rpc = outcome]
         racing == {o \in CalendlyIds : /\ cd[o].pc = "rpc_redeem"
                                         /\ cd[o].ev.uri # q.ev.uri
                                         /\ cd[o].redeemEmail = q.redeemEmail}
     IN
     /\ redeem_credit_for_calendly(q.redeemEmail, q.ev.event_uri, q.ev.uri, dup)
     /\ IF outcome = "ok"
        THEN /\ cd' = [cd EXCEPT ![c] = [called EXCEPT !.pc = "rsvp_name"]]
             /\ UNCHANGED answered
             /\ hist' = [hist EXCEPT !.raced = IF racing # {} THEN @ \cup {q.ev.uri} \cup {cd[o].ev.uri : o \in racing} ELSE @]
        ELSE IF isInsufficientCredits(outcome)
        THEN /\ cd' = [cd EXCEPT ![c] = [called EXCEPT !.pc = "issue_member"]]
             /\ UNCHANGED answered
             /\ hist' = [hist EXCEPT !.raced = IF racing # {} THEN @ \cup {q.ev.uri} \cup {cd[o].ev.uri : o \in racing} ELSE @]
        ELSE CalendlyAnswer(c, called, 200, outcome)
  /\ UNCHANGED <<booking_passes, issues, waivers, signnow, notCalendly, started>>

\* "Best-effort: link to member if they exist"
CalendlyIssueMember(c) ==
  /\ cd[c].pc = "issue_member"
  /\ CalendlyGoto(c, [cd[c] EXCEPT !.member_id = IF cd[c].redeemEmail \in members THEN cd[c].redeemEmail ELSE NULL],
                  "issue_upsert")
  /\ UNCHANGED <<db, bookings, sd, rq, ad, started>>

Issue(e, memberId, message) ==
  [calendly_invitee_uri |-> e.uri,
   calendly_event_uri |-> e.event_uri, invitee_email |-> e.email, member_id |-> memberId,
   event_start_at |-> e.start_time, error_code |-> "INSUFFICIENT_CREDITS", error_message |-> message]

\* an insert that does not look for the row of the invitee uri
UpsertOnInviteeUri_Insert(rows, row) == Append(rows, row)

\* .upsert(row, { onConflict: "calendly_invitee_uri" }): the row of the uri is
\* replaced, and inserted when there is none
UpsertOnInviteeUri(rows, row) ==
  IF \E i \in DOMAIN rows : rows[i].calendly_invitee_uri = row.calendly_invitee_uri
  THEN [i \in DOMAIN rows |-> IF rows[i].calendly_invitee_uri = row.calendly_invitee_uri THEN row ELSE rows[i]]
  ELSE Append(rows, row)

\* an error branch without its return: the handler goes on as after a redemption
CalendlyIssueUpsert_FallingThrough(c, ok) ==
  /\ cd[c].pc = "issue_upsert"
  /\ issues' = IF ok THEN UpsertOnInviteeUri(issues, Issue(cd[c].ev, cd[c].member_id, cd[c].rpc)) ELSE issues
  /\ CalendlyGoto(c, cd[c], "rsvp_name")
  /\ UNCHANGED <<ledger, booking_passes, rsvps, waivers, signnow, notCalendly, started>>

\* an upsert whose payload carries the columns of the admin's resolution
CalendlyIssueUpsert_Reopening(c, ok) ==
  /\ cd[c].pc = "issue_upsert"
  /\ issues' = IF ok THEN UpsertOnInviteeUri(issues, Issue(cd[c].ev, cd[c].member_id, cd[c].rpc)) ELSE issues
  /\ resolutions' = [id \in DOMAIN resolutions \ {cd[c].ev.uri} |-> resolutions[id]]
  /\ CalendlyAnswer(c, [cd[c] EXCEPT !.pc = IF ok THEN @ ELSE "issue_failed"], 200, cd[c].rpc)
  /\ UNCHANGED <<ledger, booking_passes, rsvps, waivers, signnow, job, calendly_booking_issue_history, pd>>
  /\ UNCHANGED <<db, sd, rq, ad, started>>

\* an upsert whose failure reaches the catch block of the handler
CalendlyIssueUpsert_Throwing(c, ok) ==
  /\ cd[c].pc = "issue_upsert"
  /\ issues' = IF ok THEN UpsertOnInviteeUri(issues, Issue(cd[c].ev, cd[c].member_id, cd[c].rpc)) ELSE issues
  /\ IF ok THEN CalendlyAnswer(c, cd[c], 200, cd[c].rpc)
     ELSE CalendlyAnswer(c, [cd[c] EXCEPT !.pc = "issue_failed"], 500, "handler crash")
  /\ UNCHANGED <<ledger, booking_passes, rsvps, waivers, signnow, notCalendly, started>>

\* calendly_booking_issues upsert on calendly_invitee_uri, then "Always 200"; a failed
\* upsert (issueErr) is logged only
CalendlyIssueUpsert(c, ok) ==
  /\ cd[c].pc = "issue_upsert"
  /\ issues' = IF ok THEN UpsertOnInviteeUri(issues, Issue(cd[c].ev, cd[c].member_id, cd[c].rpc)) ELSE issues
  /\ CalendlyAnswer(c, [cd[c] EXCEPT !.pc = IF ok THEN @ ELSE "issue_failed"], 200, cd[c].rpc)
  /\ UNCHANGED <<ledger, booking_passes, rsvps, waivers, signnow, notCalendly, started>>

\* rsvps.invitee_name of the booking
CalendlyRsvpName(c) ==
  /\ cd[c].pc = "rsvp_name"
  /\ rsvps' = [u \in DOMAIN rsvps |->
                 IF u = cd[c].ev.uri THEN [rsvps[u] EXCEPT !.invitee_name = cd[c].ev.name] ELSE rsvps[u]]
  /\ CalendlyGoto(c, cd[c], IF cd[c].ev.token # NoToken THEN "pass_consume" ELSE "waiver_lookup")
  /\ UNCHANGED <<ledger, booking_passes, issues, waivers, signnow, notCalendly, started>>

\* "Consume booking pass ONLY on successful RSVP credit redemption"
CalendlyPassConsume(c) ==
  /\ cd[c].pc = "pass_consume"
  /\ booking_passes' = MarkUsed(booking_passes, PassesOfToken(cd[c].ev.token), now)
  /\ cd' = [cd EXCEPT ![c].pc = "waiver_lookup"]
  /\ hist' = [hist EXCEPT !.kept = @ \cup UsedAmong(PassesOfToken(cd[c].ev.token))]
  /\ UNCHANGED <<ledger, bookings, notCalendly, started, answered>>

\* the response after the waiver block, without the correction of the rsvp
CalendlyAfterWaiver_NoFix(c, q) == CalendlyAnswer(c, q, 200, "redeemed")

\* after the waiver block: the rsvp's invitee_email is corrected when the guest is
\* not the redeeming email, then the response
CalendlyAfterWaiver(c, q) ==
  IF q.ev.email # q.redeemEmail
  THEN CalendlyGoto(c, q, "rsvp_fix")
  ELSE CalendlyAnswer(c, q, 200, "redeemed")

\* the waiver row of the invitee uri: signed, or sent with a document, is not sent
\* again; after a lookup error the handler goes on as if there were no row
CalendlyWaiverLookup(c, ok) ==
  /\ cd[c].pc = "waiver_lookup"
  /\ LET uri == cd[c].ev.uri
         existing == ok /\ uri \in DOMAIN waivers
     IN
     IF existing /\ (waivers[uri].status = "signed" \/ waivers[uri].signed_at # NoTime)
       THEN CalendlyAfterWaiver(c, cd[c])
     ELSE IF existing /\ waivers[uri].status = "sent" /\ waivers[uri].external_document_id # 0
       THEN CalendlyAfterWaiver(c, cd[c])
     ELSE CalendlyGoto(c, cd[c], "signnow_copy")
  /\ UNCHANGED <<db, bookings, sd, rq, ad, started>>

\* a copy whose failure reaches the catch block of the handler
CalendlySignNowCopy_Throwing(c, ok) ==
  /\ cd[c].pc = "signnow_copy"
  /\ IF ok
     THEN /\ signnow' = Append(signnow, [invited |-> NULL, payload |-> PendingDoc])
          /\ CalendlyGoto(c, [cd[c] EXCEPT !.doc = Len(signnow) + 1], "signnow_invite")
     ELSE /\ UNCHANGED signnow
          /\ CalendlyAnswer(c, cd[c], 500, "handler crash")
  /\ UNCHANGED <<ledger, booking_passes, rsvps, issues, waivers, notCalendly, started>>

\* signNowCopyTemplateToDocument; a failure is caught by the waiver block
CalendlySignNowCopy(c, ok) ==
  /\ cd[c].pc = "signnow_copy"
  /\ IF ok
     THEN /\ signnow' = Append(signnow, [invited |-> NULL, payload |-> PendingDoc])
          /\ CalendlyGoto(c, [cd[c] EXCEPT !.doc = Len(signnow) + 1], "signnow_invite")
     ELSE /\ UNCHANGED signnow
          /\ CalendlyAfterWaiver(c, cd[c])
  /\ UNCHANGED <<ledger, booking_passes, rsvps, issues, waivers, notCalendly, started>>

\* signNowSendDocumentInvite to the invitee's email
CalendlySignNowInvite(c, ok) ==
  /\ cd[c].pc = "signnow_invite"
  /\ IF ok
     THEN /\ signnow' = [signnow EXCEPT ![cd[c].doc].invited = Normalize(cd[c].ev.email)]
          /\ CalendlyGoto(c, cd[c], "waiver_member")
     ELSE /\ UNCHANGED signnow
          /\ CalendlyAfterWaiver(c, cd[c])
  /\ UNCHANGED <<ledger, booking_passes, rsvps, issues, waivers, notCalendly, started>>

\* "Attach member_id if email matches an existing member"
CalendlyWaiverMember(c) ==
  /\ cd[c].pc = "waiver_member"
  /\ CalendlyGoto(c, [cd[c] EXCEPT !.member_id = IF Normalize(cd[c].ev.email) \in members
                                                 THEN Normalize(cd[c].ev.email) ELSE NULL],
                  "waiver_upsert")
  /\ UNCHANGED <<db, bookings, sd, rq, ad, started>>

\* the waiver row as sent; signed_at is not among the columns written
WaiverSent(existing, q) ==
  [status |-> "sent", recipient_email |-> Normalize(q.ev.email), external_document_id |-> q.doc,
   sent_at |-> now, signed_at |-> existing.signed_at, member_id |-> q.member_id]

NoWaiver == [signed_at |-> NoTime]

\* waivers upsert on calendly_invitee_uri; a failed upsert (upErr) is logged only
CalendlyWaiverUpsert(c, ok) ==
  /\ cd[c].pc = "waiver_upsert"
  /\ LET uri == cd[c].ev.uri IN
     waivers' = IF ok
                THEN Upsert(waivers, uri, WaiverSent(IF uri \in DOMAIN waivers THEN waivers[uri] ELSE NoWaiver, cd[c]))
                ELSE waivers
  /\ CalendlyAfterWaiver(c, cd[c])
  /\ UNCHANGED <<ledger, booking_passes, rsvps, issues, signnow, notCalendly, started>>

\* "Correct the RSVP row to reflect the actual guest attendee email", then the response
CalendlyRsvpFix(c) ==
  /\ cd[c].pc = "rsvp_fix"
  /\ rsvps' = [u \in DOMAIN rsvps |->
                 IF u = cd[c].ev.uri THEN [rsvps[u] EXCEPT !.invitee_email = cd[c].ev.email] ELSE rsvps[u]]
  /\ CalendlyAnswer(c, cd[c], 200, "redeemed")
  /\ UNCHANGED <<ledger, booking_passes, issues, waivers, signnow, notCalendly, started>>

\* a cancellation that also takes back the waiver of the invitee uri
CalendlyCancel_RevokingWaiver(c) ==
  /\ cd[c].pc = "rpc_cancel"
  /\ cancel_rsvp_for_calendly(cd[c].ev.uri)
  /\ waivers' = [u \in DOMAIN waivers \ {cd[c].ev.uri} |-> waivers[u]]
  /\ CalendlyAnswer(c, cd[c], 200,
                    IF CancelForCalendlyOutcome(cd[c].ev.uri) = "ok" THEN "canceled" ELSE CancelForCalendlyOutcome(cd[c].ev.uri))
  /\ UNCHANGED <<booking_passes, issues, signnow, notCalendly, started>>

\* a cancellation whose procedure error reaches the catch block of the handler
CalendlyCancel_Crashing(c) ==
  /\ cd[c].pc = "rpc_cancel"
  /\ cancel_rsvp_for_calendly(cd[c].ev.uri)
  /\ IF CancelForCalendlyOutcome(cd[c].ev.uri) = "ok"
     THEN CalendlyAnswer(c, cd[c], 200, "canceled")
     ELSE CalendlyAnswer(c, cd[c], 500, CancelForCalendlyOutcome(cd[c].ev.uri))
  /\ UNCHANGED <<booking_passes, issues, waivers, signnow, notCalendly, started>>

\* supabase.rpc("cancel_rsvp_for_calendly"), then the response
CalendlyCancel(c) ==
  /\ cd[c].pc = "rpc_cancel"
  /\ cancel_rsvp_for_calendly(cd[c].ev.uri)
  /\ CalendlyAnswer(c, cd[c], 200,
                    IF CancelForCalendlyOutcome(cd[c].ev.uri) = "ok" THEN "canceled" ELSE CancelForCalendlyOutcome(cd[c].ev.uri))
  /\ UNCHANGED <<booking_passes, issues, waivers, signnow, notCalendly, started>>

\* the steps of the webhook; calls: the outcomes of its calls of
\* redeem_credit_for_calendly, of the issue upsert, of the waiver lookup and of the
\* waiver upsert (TRUE: the call is served)
CalendlyStepUnder(calls) ==
  \/ \E gate \in Gates, body \in CalendlyBodies : CalendlyReceive(gate, body)
  \/ \E c \in CalendlyIds :
       \/ CalendlyPassLookup(c)
       \/ \E dup \in {"existing", "error"} \cup {"unavailable" : ok \in calls \ {TRUE}} : CalendlyRedeem(c, dup)
       \/ CalendlyIssueMember(c)
       \/ \E ok \in calls : CalendlyIssueUpsert(c, ok)
       \/ CalendlyRsvpName(c)
       \/ CalendlyPassConsume(c)
       \/ \E ok \in calls : CalendlyWaiverLookup(c, ok)
       \/ \E ok \in BOOLEAN : CalendlySignNowCopy(c, ok)
       \/ \E ok \in BOOLEAN : CalendlySignNowInvite(c, ok)
       \/ CalendlyWaiverMember(c)
       \/ \E ok \in calls : CalendlyWaiverUpsert(c, ok)
       \/ CalendlyRsvpFix(c)
       \/ CalendlyCancel(c)

\* the webhook with every database call served
CalendlyStep == CalendlyStepUnder({TRUE})

\* ------------------------------------------------------------------ admin: credits
\* /admin/credits/redeem and /admin/credits/add: the session and the is_admin check
\* read nothing a handler writes, so a request is one step with its procedure call
CreditsAnswer(kind, status, body) ==
  answered' = Response(kind, status, body, NULL, NoToken, NULL, FALSE)

AdminCreditsRedeem(caller, memberId) ==
  /\ Receivable("credits", MaxCreditRequests)
  /\ Started("credits")
  /\ IF caller = "anonymous" THEN CreditsAnswer("credits-redeem", 401, "UNAUTHORIZED") /\ UNCHANGED ledger
     ELSE IF caller # "admin" THEN CreditsAnswer("credits-redeem", 403, "FORBIDDEN") /\ UNCHANGED ledger
     ELSE IF memberId = "" THEN CreditsAnswer("credits-redeem", 400, "MISSING_MEMBER_ID") /\ UNCHANGED ledger
     ELSE /\ redeem_credit(memberId, "Manual redemption (-1)")
          /\ IF RedeemCreditOutcome(memberId) = "ok"
             THEN CreditsAnswer("credits-redeem", 200, "ok")
             ELSE CreditsAnswer("credits-redeem", 500, RedeemCreditOutcome(memberId))
  /\ UNCHANGED <<now, members, stripe_events, guest_profiles, booking_passes, outbox, bookings,
                 sd, rq, ad, cd, hist>>

\* !Number.isFinite(amount) || amount === 0
InvalidAmount(amount) == amount = NaN \/ amount = 0

AdminCreditsAdd(caller, memberId, amount) ==
  /\ Receivable("credits", MaxCreditRequests)
  /\ Started("credits")
  /\ IF caller = "anonymous" THEN CreditsAnswer("credits-add", 401, "UNAUTHORIZED") /\ UNCHANGED ledger
     ELSE IF caller # "admin" THEN CreditsAnswer("credits-add", 403, "FORBIDDEN") /\ UNCHANGED ledger
     ELSE IF memberId = "" THEN CreditsAnswer("credits-add", 400, "MISSING_MEMBER_ID") /\ UNCHANGED ledger
     ELSE IF InvalidAmount(amount) THEN CreditsAnswer("credits-add", 400, "INVALID_AMOUNT") /\ UNCHANGED ledger
     ELSE /\ add_credit(memberId, amount, "Manual grant")
          /\ IF AddCreditOutcome(memberId, amount) = "ok"
             THEN CreditsAnswer("credits-add", 200, "ok")
             ELSE CreditsAnswer("credits-add", 500, AddCreditOutcome(memberId, amount))
  /\ UNCHANGED <<now, members, stripe_events, guest_profiles, booking_passes, outbox, bookings,
                 sd, rq, ad, cd, hist>>

CreditMembers == {"", "a@x", "nobody"}
CreditAmounts == {NaN, Fraction, 0, -1, 1}

CreditsStep ==
  \/ \E caller \in AdminCallers, memberId \in CreditMembers : AdminCreditsRedeem(caller, memberId)
  \/ \E caller \in AdminCallers, memberId \in CreditMembers, amount \in CreditAmounts :
       AdminCreditsAdd(caller, memberId, amount)

\* ------------------------------------------------------------------ admin: booking issues
notPatch == <<db, rsvps, issues, waivers, signnow, job, sd, rq, ad, cd>>

\* a gate that asks for a signed-in user only
requireAdmin_AnyUser(caller) ==
  IF caller = "anonymous" THEN 401 ELSE 0

\* requireAdmin: 401 without a user, 403 without is_admin on the member row, 0
\* for an admin
requireAdmin(caller) ==
  IF caller = "anonymous" THEN 401
  ELSE IF caller # "admin" THEN 403
  ELSE 0

GateMessage(status) == IF status = 401 THEN "Unauthorized" ELSE "Forbidden"

PatchAnswer(p, id, status, body) ==
  /\ pd' = [pd EXCEPT ![p] = IdlePatch]
  /\ answered' = Response("issues-patch", status, body, id, NoToken, NULL, FALSE)

\* PATCH: the gate and the body
IssuePatchStart(caller, id, resolution, notes) ==
  /\ HasIdle(pd)
  /\ Receivable("patch", MaxPatchRequests)
  /\ Started("patch")
  /\ LET p == FirstIdle(pd) IN
     IF requireAdmin(caller) # 0
       THEN PatchAnswer(p, id, requireAdmin(caller), GateMessage(requireAdmin(caller)))
     ELSE IF id = "" THEN PatchAnswer(p, id, 400, "id required")
     ELSE IF resolution = "" THEN PatchAnswer(p, id, 400, "resolution required")
     ELSE /\ pd' = [pd EXCEPT ![p] = [pc |-> "update", id |-> id, resolution |-> resolution,
                                      notes |-> notes, actor |-> caller]]
          /\ UNCHANGED answered
  /\ UNCHANGED <<resolutions, calendly_booking_issue_history, notPatch, hist>>

\* a handled_at that is stamped whatever the resolution
HandledAt_Always(resolution, t) == t

\* handled_at = resolution === "open" ? null : new Date().toISOString()
HandledAt(resolution, t) == IF resolution = "open" THEN NoTime ELSE t

\* "1) Update the current state row": .update({ resolution, handled_at, notes })
\* .eq("id", id) ... .single(), an error when no row has the id
IssuePatchUpdate(p) ==
  /\ pd[p].pc = "update"
  /\ IF IssuesOf(pd[p].id) = {}
     THEN /\ PatchAnswer(p, pd[p].id, 400, "no row")
          /\ UNCHANGED resolutions
     ELSE /\ resolutions' =
               Upsert(resolutions, pd[p].id,
                      [resolution |-> pd[p].resolution, notes |-> pd[p].notes,
                       handled_at |-> HandledAt(pd[p].resolution, now)])
          /\ pd' = [pd EXCEPT ![p].pc = "history"]
          /\ UNCHANGED answered
  /\ UNCHANGED <<calendly_booking_issue_history, notPatch, started, hist>>

\* "2) Append to history table": a failed insert is logged and the request still
\* answers 200
IssuePatchHistory(p, ok) ==
  /\ pd[p].pc = "history"
  /\ calendly_booking_issue_history' =
       IF ok
       THEN Append(calendly_booking_issue_history,
                   [issue_id |-> pd[p].id, resolution |-> pd[p].resolution, notes |-> pd[p].notes,
                    actor_user_id |-> pd[p].actor])
       ELSE calendly_booking_issue_history
  /\ PatchAnswer(p, pd[p].id, 200, "ok")
  /\ UNCHANGED <<resolutions, notPatch, started, hist>>

PatchIssueIds == {"", "inv_2", "inv_9"}
\* "handled" stands for a string that is not among the options of the admin table
PatchResolutions == {"", "open", "contacted_customer", "handled"}
PatchNotes == {NULL, "called"}

\* the steps of the requests being handled
PatchSteps(calls) ==
  \E p \in PatchIds :
    \/ IssuePatchUpdate(p)
    \/ \E ok \in calls : IssuePatchHistory(p, ok)

PatchStepUnder(calls) ==
  \/ \E caller \in AdminCallers, id \in PatchIssueIds, resolution \in PatchResolutions,
        notes \in PatchNotes : IssuePatchStart(caller, id, resolution, notes)
  \/ PatchSteps(calls)

PatchStep == PatchStepUnder({TRUE})

\* ------------------------------------------------------------------ specifications
Tick ==
  /\ now < MaxTime
  /\ now' = now + 1
  /\ UNCHANGED <<members, ledger, stripe_events, guest_profiles, booking_passes, outbox,
                 bookings, sd, rq, ad, cd, started, answered, hist>>

NoRequests ==
  /\ sd = [d \in StripeIds |-> IdleDelivery]
  /\ rq = [r \in RedeemIds |-> IdleRequest]
  /\ ad = [a \in AdminIds |-> IdleAdmin]
  /\ cd = [c \in CalendlyIds |-> IdleCalendly]
  /\ job = IdleJob
  /\ resolutions = <<>>
  /\ calendly_booking_issue_history = <<>>
  /\ pd = [p \in PatchIds |-> IdlePatch]
  /\ started = [stripe |-> 0, redeem |-> 0, admin |-> 0, calendly |-> 0, credits |-> 0, patch |-> 0,
                waiver |-> 0]
  /\ answered = NoResponse
  /\ hist = [proceeded |-> [e \in {x.id : x \in StripeEvents \cup UncreditedEvents} |-> 0],
             pastGrant |-> {}, overlapped |-> {}, redirected |-> {}, twice |-> {},
             kept |-> {}, created |-> {}, raced |-> {}, reissued |-> {}]

NoBookings ==
  /\ rsvps = <<>>
  /\ issues = <<>>
  /\ waivers = <<>>
  /\ signnow = <<>>

\* an "older/orphaned pass row": minted for a session before passes were linked to members
OrphanPass == Pass(1, NoToken, "a@x", "cs_A", PassTtl, NULL)

Init ==
  /\ now = 0
  /\ members \in SUBSET {"a@x"}
  /\ ledger = <<>>
  /\ stripe_events = {}
  /\ guest_profiles = <<>>
  /\ booking_passes \in {<<>>, <<OrphanPass>>}
  /\ outbox = {}
  /\ NoBookings
  /\ NoRequests

NextStripe == StripeStep

SpecStripe == Init /\ [][NextStripe]_vars

\* deliveries that include the checkouts the handler cannot credit
NextUncredited == StripeStepOf(StripeEvents \cup UncreditedEvents)

SpecUncredited == Init /\ [][NextUncredited]_vars

\* the state after one purchase: SpecStripe reaches it by one delivery of CheckoutA
\* whose mail went out
Purchased ==
  /\ members = {"a@x"}
  /\ ledger = <<Entry("a@x", "grant", 1, CheckoutReason("cs_A", "evt_A"))>>
  /\ stripe_events = {"evt_A"}
  /\ guest_profiles = [k \in {"a@x"} |-> "cs_A"]
  /\ booking_passes = <<Pass(1, NoToken, "a@x", "cs_A", PassTtl, "a@x")>>
  /\ outbox = {Mail("a@x", 1)}

InitPurchased ==
  /\ now = 0
  /\ Purchased
  /\ NoBookings
  /\ NoRequests

NextPass == \/ RedeemStep
            \/ AdminStep
            \/ CalendlyStep
            \/ Tick

SpecPass == InitPurchased /\ [][NextPass]_vars

NextCredits == \/ StripeStep
               \/ CalendlyStep
               \/ CreditsStep

\* the purchase of a@x, with or without an older pass row of another session
InitCredits ==
  /\ now = 0
  /\ members = {"a@x"}
  /\ ledger = <<Entry("a@x", "grant", 1, CheckoutReason("cs_A", "evt_A"))>>
  /\ stripe_events = {"evt_A"}
  /\ guest_profiles = [k \in {"a@x"} |-> "cs_A"]
  /\ booking_passes \in {<<Pass(1, NoToken, "a@x", "cs_A", PassTtl, "a@x")>>,
                         <<Pass(1, NoToken, "a@x", "cs_A", PassTtl, "a@x"),
                           Pass(2, NoToken, "a@x", "cs_B", PassTtl, NULL)>>}
  /\ outbox = {Mail("a@x", 1)}
  /\ NoBookings
  /\ NoRequests

SpecCredits == InitCredits /\ [][NextCredits]_vars

\* ------------------------------------------------------------------ the booking webhook alone
\* the tables after the guest's booking inv_1 with the link of a@x was redeemed at
\* time 0 and its waiver sent
Booked ==
  /\ members = {"a@x"}
  /\ ledger = <<Entry("a@x", "grant", 1, CheckoutReason("cs_A", "evt_A")),
                Entry("a@x", "redeem", 1, CalendlyReason("inv_1"))>>
  /\ stripe_events = {"evt_A"}
  /\ guest_profiles = [k \in {"a@x"} |-> "cs_A"]
  /\ booking_passes = <<[Pass(1, NoToken, "a@x", "cs_A", PassTtl, "a@x") EXCEPT !.used_at = 0]>>
  /\ outbox = {Mail("a@x", 1)}
  /\ rsvps = [u \in {"inv_1"} |-> [Rsvp("a@x", "ev_1", "g@x") EXCEPT !.invitee_name = "Guest"]]
  /\ issues = <<>>
  /\ waivers = [u \in {"inv_1"} |->
                  [status |-> "sent", recipient_email |-> "g@x", external_document_id |-> 1,
                   sent_at |-> 0, signed_at |-> NoTime, member_id |-> NULL]]
  /\ signnow = <<[invited |-> "g@x", payload |-> PendingDoc]>>

\* the purchase of a@x and a credit added by the admin
Topped ==
  /\ members = {"a@x"}
  /\ ledger = <<Entry("a@x", "grant", 1, CheckoutReason("cs_A", "evt_A")),
                Entry("a@x", "grant", 1, ManualReason("Manual grant"))>>
  /\ stripe_events = {"evt_A"}
  /\ guest_profiles = [k \in {"a@x"} |-> "cs_A"]
  /\ booking_passes = <<Pass(1, NoToken, "a@x", "cs_A", PassTtl, "a@x")>>
  /\ outbox = {Mail("a@x", 1)}

\* after the purchase of a@x: before the guest's booking, with one credit or
\* two, or after it
InitBooking ==
  /\ now = 0
  /\ \/ Purchased /\ NoBookings
     \/ Topped /\ NoBookings
     \/ Booked
  /\ NoRequests

\* deliveries of the booking webhook, whose calls can fail
NextBooking == \/ CalendlyStepUnder(BOOLEAN)
               \/ Tick

SpecBooking == InitBooking /\ [][NextBooking]_vars

\* the same deliveries within one instant
NextRedemption == CalendlyStepUnder(BOOLEAN)

SpecRedemption == InitBooking /\ [][NextRedemption]_vars

\* ------------------------------------------------------------------ waiver reconciliation
\* the invited signer completes a document at SignNow
SignDocument(d) ==
  /\ d \in DOMAIN signnow
  /\ signnow[d].invited # NULL /\ signnow[d].payload = PendingDoc
  /\ signnow' = [signnow EXCEPT ![d].payload = CompletedDoc]
  /\ UNCHANGED <<db, rsvps, issues, waivers, job, desk, sd, rq, ad, cd, started, answered, hist>>

\* looksSigned of the document fetched from SignNow
looksSigned(docId) == docId \in DOMAIN signnow /\ looksSignedOf(signnow[docId].payload)

\* a waiver row the job selects, and the filter of its update: sent, not signed
SentUnsigned(w) == w.status = "sent" /\ w.signed_at = NoTime

\* waiver-sync-signed: the select of the sent, unsigned rows with a document; a
\* failed select ends the run as failed
JobStart(selected) ==
  /\ job.pc = "idle"
  /\ LET list == {u \in DOMAIN waivers : SentUnsigned(waivers[u]) /\ waivers[u].external_document_id # 0} IN
     job' = IF selected
            THEN [pc |-> "loop", scanned |-> list, todo |-> list,
                  docs |-> [u \in list |-> waivers[u].external_document_id],
                  checked |-> {}, errors |-> {}, status |-> "running"]
            ELSE [IdleJob EXCEPT !.status = "failed"]
  /\ UNCHANGED <<db, rsvps, issues, waivers, signnow, desk, sd, rq, ad, cd, started, answered, hist>>

\* what can happen to one waiver of the list: the access token cannot be had, the
\* document cannot be fetched, the update fails, or the document is polled
JobOutcomes == {"token_error", "fetch_failed", "update_error", "polled"}

\* one turn of the loop with an update whose error ends the run
JobItem_Aborting(u, outcome) ==
  /\ job.pc = "loop" /\ u \in job.todo
  /\ outcome = "update_error" => looksSigned(job.docs[u])
  /\ job' = IF outcome = "update_error" THEN [job EXCEPT !.pc = "idle", !.status = "failed"]
            ELSE IF outcome = "polled" THEN [job EXCEPT !.todo = @ \ {u}, !.checked = @ \cup {u}]
            ELSE [job EXCEPT !.todo = @ \ {u}, !.errors = @ \cup {u}]
  /\ waivers' = IF outcome = "polled" /\ looksSigned(job.docs[u]) /\ u \in DOMAIN waivers /\ SentUnsigned(waivers[u])
                THEN [waivers EXCEPT ![u].status = "signed", ![u].signed_at = now]
                ELSE waivers
  /\ UNCHANGED <<db, rsvps, issues, signnow, desk, sd, rq, ad, cd, started, answered, hist>>

\* one turn of the loop: the document of the waiver is fetched and, when it looks
\* signed, the row is updated if it is still sent and unsigned; an error is put
\* on the run's error list
JobItem(u, outcome) ==
  /\ job.pc = "loop" /\ u \in job.todo
  /\ outcome = "update_error" => looksSigned(job.docs[u])
  /\ job' = IF outcome = "polled"
            THEN [job EXCEPT !.todo = @ \ {u}, !.checked = @ \cup {u}]
            ELSE [job EXCEPT !.todo = @ \ {u}, !.errors = @ \cup {u}]
  /\ waivers' = IF outcome = "polled" /\ looksSigned(job.docs[u]) /\ u \in DOMAIN waivers /\ SentUnsigned(waivers[u])
                THEN [waivers EXCEPT ![u].status = "signed", ![u].signed_at = now]
                ELSE waivers
  /\ UNCHANGED <<db, rsvps, issues, signnow, desk, sd, rq, ad, cd, started, answered, hist>>

\* after the loop: the update of the run row, whose error is not read, and the
\* answer; a failed update leaves the row as it was inserted
JobFinalise(ok) ==
  /\ job.pc = "loop" /\ job.todo = {}
  /\ job' = [job EXCEPT !.pc = "idle",
                        !.status = IF ~ok THEN @
                                   ELSE IF job.errors # {} THEN "completed_with_errors" ELSE "completed"]
  /\ UNCHANGED <<db, rsvps, issues, waivers, signnow, desk, sd, rq, ad, cd, started, answered, hist>>

\* after the loop: the run row is completed
JobFinish == JobFinalise(TRUE)

JobStep ==
  \/ \E selected \in BOOLEAN : JobStart(selected)
  \/ \E u \in job.todo, outcome \in JobOutcomes : JobItem(u, outcome)
  \/ JobFinish

\* the booking webhook, the signers and the reconciliation job
NextWaiver == \/ CalendlyStep
              \/ \E d \in 1..(MaxCalendlyDeliveries + 1) : SignDocument(d)
              \/ JobStep
              \/ Tick

SpecWaiver == InitPurchased /\ [][NextWaiver]_vars

\* the tables after two bookings of time 0 were redeemed for a@x and their waivers
\* sent: the guest's inv_1 with the link of a@x, and inv_2 of a@x
\* the tables after two bookings, the document of the first as SignNow returns it
BookedTwiceWith(doc) ==
  /\ members = {"a@x"}
  /\ ledger = <<Entry("a@x", "grant", 1, CheckoutReason("cs_A", "evt_A")),
                Entry("a@x", "grant", 1, ManualReason("Manual grant")),
                Entry("a@x", "redeem", 1, CalendlyReason("inv_1")),
                Entry("a@x", "redeem", 1, CalendlyReason("inv_2"))>>
  /\ stripe_events = {"evt_A"}
  /\ guest_profiles = [k \in {"a@x"} |-> "cs_A"]
  /\ booking_passes = <<[Pass(1, NoToken, "a@x", "cs_A", PassTtl, "a@x") EXCEPT !.used_at = 0]>>
  /\ outbox = {Mail("a@x", 1)}
  /\ rsvps = [u \in {"inv_1", "inv_2"} |->
                IF u = "inv_1" THEN [Rsvp("a@x", "ev_1", "g@x") EXCEPT !.invitee_name = "Guest"]
                ELSE [Rsvp("a@x", "ev_1", "a@x") EXCEPT !.invitee_name = "Member"]]
  /\ issues = <<>>
  /\ waivers = [u \in {"inv_1", "inv_2"} |->
                  [status |-> "sent", recipient_email |-> IF u = "inv_1" THEN "g@x" ELSE "a@x",
                   external_document_id |-> IF u = "inv_1" THEN 1 ELSE 2,
                   sent_at |-> 0, signed_at |-> NoTime,
                   member_id |-> IF u = "inv_1" THEN NULL ELSE "a@x"]]
  /\ signnow = <<[invited |-> "g@x", payload |-> doc], [invited |-> "a@x", payload |-> PendingDoc]>>

BookedTwice == BookedTwiceWith(PendingDoc)

InitJob ==
  /\ now = 0
  /\ BookedTwice
  /\ NoRequests

\* the signers and the reconciliation job
NextJob == \/ \E d \in DOMAIN signnow : SignDocument(d)
           \/ JobStep
           \/ Tick

SpecJob == InitJob /\ [][NextJob]_vars

\* the turns of the loop and the finalisation of a run that was started
JobRuns ==
  \/ \E u \in job.todo, outcome \in JobOutcomes : JobItem(u, outcome)
  \/ \E ok \in BOOLEAN : JobFinalise(ok)

\* the signers and the job, whose queries can fail up to the last
NextJobFair ==
  \/ \E d \in DOMAIN signnow : SignDocument(d)
  \/ \E selected \in BOOLEAN : JobStart(selected)
  \/ JobRuns
  \/ Tick

\* a run that was started goes on until it answers
SpecJobFair == InitJob /\ [][NextJobFair]_vars /\ WF_vars(JobRuns)

\* ------------------------------------------------------------------ booking issues
\* the tables after the booking inv_2 of a@x found no credit left, the one credit
\* being redeemed for the guest's booking inv_1: SpecBooking reaches them from
\* Booked by one invitee.created
Shortfall ==
  /\ members = {"a@x"}
  /\ ledger = <<Entry("a@x", "grant", 1, CheckoutReason("cs_A", "evt_A")),
                Entry("a@x", "redeem", 1, CalendlyReason("inv_1"))>>
  /\ stripe_events = {"evt_A"}
  /\ guest_profiles = [k \in {"a@x"} |-> "cs_A"]
  /\ booking_passes = <<[Pass(1, NoToken, "a@x", "cs_A", PassTtl, "a@x") EXCEPT !.used_at = 0]>>
  /\ outbox = {Mail("a@x", 1)}
  /\ rsvps = [u \in {"inv_1"} |-> [Rsvp("a@x", "ev_1", "g@x") EXCEPT !.invitee_name = "Guest"]]
  /\ issues = <<Issue(CreatedMember, "a@x", "INSUFFICIENT_CREDITS")>>
  /\ waivers = [u \in {"inv_1"} |->
                  [status |-> "sent", recipient_email |-> "g@x", external_document_id |-> 1,
                   sent_at |-> 0, signed_at |-> NoTime, member_id |-> NULL]]
  /\ signnow = <<[invited |-> "g@x", payload |-> PendingDoc]>>

\* after the purchase of a@x, before any booking or with the open issue of inv_2
InitIssues ==
  /\ now = 0
  /\ \/ Purchased /\ NoBookings
     \/ Shortfall
  /\ NoRequests

\* the admin's PATCH requests, deliveries of the booking webhook and the clock
NextIssues == \/ PatchStep
              \/ CalendlyStep
              \/ Tick

SpecIssues == InitIssues /\ [][NextIssues]_vars

\* the admin's desk, the admin's grants and the deliveries within one instant
NextDesk ==
  \/ PatchStep
  \/ CalendlyStep
  \/ \E amount \in {-1, 1} : AdminCreditsAdd("admin", "a@x", amount)

SpecDesk == InitIssues /\ [][NextDesk]_vars

\* ------------------------------------------------------------------ balances
\* the tables after the guest's booking inv_1 was canceled and its credit given
\* back to a@x: SpecBooking reaches them from Booked by one invitee.canceled
Refunded ==
  /\ members = {"a@x"}
  /\ ledger = <<Entry("a@x", "grant", 1, CheckoutReason("cs_A", "evt_A")),
                Entry("a@x", "redeem", 1, CalendlyReason("inv_1")),
                Entry("a@x", "refund", 1, CalendlyReason("inv_1"))>>
  /\ stripe_events = {"evt_A"}
  /\ guest_profiles = [k \in {"a@x"} |-> "cs_A"]
  /\ booking_passes = <<[Pass(1, NoToken, "a@x", "cs_A", PassTtl, "a@x") EXCEPT !.used_at = 0]>>
  /\ outbox = {Mail("a@x", 1)}
  /\ rsvps = [u \in {"inv_1"} |->
                [Rsvp("a@x", "ev_1", "g@x") EXCEPT !.invitee_name = "Guest", !.status = "canceled"]]
  /\ issues = <<>>
  /\ waivers = [u \in {"inv_1"} |->
                  [status |-> "sent", recipient_email |-> "g@x", external_document_id |-> 1,
                   sent_at |-> 0, signed_at |-> NoTime, member_id |-> NULL]]
  /\ signnow = <<[invited |-> "g@x", payload |-> PendingDoc]>>

\* after the purchase of a@x: before the guest's booking, after it, or after its
\* cancellation
InitBalance ==
  /\ now = 0
  /\ \/ Purchased /\ NoBookings
     \/ Booked
     \/ Refunded
  /\ NoRequests

\* the admin's send-booking-link requests and the booking webhook
NextBalance == \/ AdminStep
               \/ CalendlyStep
               \/ Tick

SpecBalance == InitBalance /\ [][NextBalance]_vars

\* v_member_credit_balance: the member's balance as the sum of the signed deltas of
\* its ledger rows
v_member_credit_balance(memberId) ==
  LET mine == SelectSeq(ledger, LAMBDA r : r.member_id = memberId)
  IN SumSeq([i \in DOMAIN mine |->
               IF mine[i].entry_type = "redeem" THEN 0 - mine[i].quantity
               ELSE mine[i].quantity])

\* ------------------------------------------------------------------ admin: waivers
notWaiverAdmin ==
  <<now, members, ledger, stripe_events, guest_profiles, booking_passes, rsvps, issues, job, desk,
    sd, rq, ad, cd, hist>>

\* the gate the four waiver routes write out themselves: 401 without a user, 403
\* without is_admin on the member row
WaiverGate(caller) ==
  IF caller = "anonymous" THEN 401
  ELSE IF caller # "admin" THEN 403
  ELSE 0

WaiverAnswer(kind, status, body) ==
  answered' = Response(kind, status, body, NULL, NoToken, NULL, FALSE)

\* the member's waiver rows of the year
WaiversOfMember(memberId) == {u \in DOMAIN waivers : waivers[u].member_id = memberId}

\* looksCompleted of the document fetched from SignNow
looksCompleted(docId) == docId \in DOMAIN signnow /\ looksCompletedOf(signnow[docId].payload)

\* mark-signed: upsert on recipient_email,waiver_year with status signed; ok is
\* whether the upsert succeeds. A row inserted here has no invitee uri and is kept
\* under its recipient email.
AdminWaiverMarkSigned(caller, memberId, recipientEmail, ok) ==
  /\ Receivable("waiver", MaxWaiverRequests)
  /\ Started("waiver")
  /\ IF WaiverGate(caller) # 0
       THEN WaiverAnswer("waiver-mark-signed", WaiverGate(caller), GateMessage(WaiverGate(caller)))
            /\ UNCHANGED waivers
     ELSE IF memberId = "" \/ recipientEmail = ""
       THEN WaiverAnswer("waiver-mark-signed", 400, "member_id and recipient_email required")
            /\ UNCHANGED waivers
     ELSE IF ~ok
       THEN WaiverAnswer("waiver-mark-signed", 400, "upsert error") /\ UNCHANGED waivers
     ELSE LET same == {u \in DOMAIN waivers : waivers[u].recipient_email = recipientEmail} IN
          /\ waivers' =
               IF same # {}
               THEN [u \in DOMAIN waivers |->
                       IF u \in same
                       THEN [waivers[u] EXCEPT !.status = "signed", !.member_id = memberId,
                                               !.signed_at = now]
                       ELSE waivers[u]]
               ELSE Upsert(waivers, recipientEmail,
                           [status |-> "signed", recipient_email |-> recipientEmail,
                            external_document_id |-> 0, sent_at |-> NoTime, signed_at |-> now,
                            member_id |-> memberId])
          /\ WaiverAnswer("waiver-mark-signed", 200, "ok")
  /\ UNCHANGED <<outbox, signnow, notWaiverAdmin>>

\* mark-sent: the member's rows that are not signed and have no document get a
\* copy of the template, an invite to the member's email and status sent; ok is
\* whether the calls for the rows succeed. The second row, if any, gets the next
\* document.
AdminWaiverMarkSent(caller, memberId, ok) ==
  /\ Receivable("waiver", MaxWaiverRequests)
  /\ Started("waiver")
  /\ LET needsSend == {u \in WaiversOfMember(memberId) :
                         waivers[u].status # "signed" /\ waivers[u].external_document_id = 0}
         order == CHOOSE f \in [needsSend -> 1..Cardinality(needsSend)] :
                    \A u, v \in needsSend : u # v => f[u] # f[v]
     IN
     IF WaiverGate(caller) # 0
       THEN WaiverAnswer("waiver-mark-sent", WaiverGate(caller), GateMessage(WaiverGate(caller)))
            /\ UNCHANGED <<waivers, signnow>>
     ELSE IF memberId = ""
       THEN WaiverAnswer("waiver-mark-sent", 400, "member_id required") /\ UNCHANGED <<waivers, signnow>>
     ELSE IF memberId \notin members
       THEN WaiverAnswer("waiver-mark-sent", 400, "no member") /\ UNCHANGED <<waivers, signnow>>
     ELSE IF needsSend = {}
       THEN WaiverAnswer("waiver-mark-sent", 409, "No waivers need to be sent.")
            /\ UNCHANGED <<waivers, signnow>>
     ELSE IF ~ok
       THEN WaiverAnswer("waiver-mark-sent", 400, "Failed to send any waivers.")
            /\ UNCHANGED <<waivers, signnow>>
     ELSE /\ signnow' = signnow \o [k \in 1..Cardinality(needsSend) |->
                                     [invited |-> memberId, payload |-> PendingDoc]]
          /\ waivers' = [u \in DOMAIN waivers |->
                           IF u \in needsSend
                           THEN [waivers[u] EXCEPT !.status = "sent",
                                                   !.external_document_id = Len(signnow) + order[u],
                                                   !.sent_at = now]
                           ELSE waivers[u]]
          /\ WaiverAnswer("waiver-mark-sent", 200, "ok")
  /\ UNCHANGED <<outbox, notWaiverAdmin>>

\* check: the rows with a document that are not signed, of one member or of all;
\* fetched are the rows whose document SignNow returns; a completed document
\* sets its row to signed, by id alone
AdminWaiverCheck(caller, memberId, fetched) ==
  /\ Receivable("waiver", MaxWaiverRequests)
  /\ Started("waiver")
  /\ LET candidates == {u \in DOMAIN waivers :
                          /\ waivers[u].external_document_id # 0
                          /\ memberId = "" \/ waivers[u].member_id = memberId
                          /\ waivers[u].status # "signed"}
         marked == {u \in candidates \cap fetched : looksCompleted(waivers[u].external_document_id)}
     IN
     IF WaiverGate(caller) # 0
       THEN WaiverAnswer("waiver-check", WaiverGate(caller), GateMessage(WaiverGate(caller)))
            /\ UNCHANGED waivers
     ELSE /\ waivers' = [u \in DOMAIN waivers |->
                           IF u \in marked
                           THEN [waivers[u] EXCEPT !.status = "signed", !.signed_at = now]
                           ELSE waivers[u]]
          /\ WaiverAnswer("waiver-check", 200, "ok")
  /\ UNCHANGED <<outbox, signnow, notWaiverAdmin>>

\* remind: one mail to the member through send-booking-pass, then the invite of
\* every unsigned row's document is sent again to the member's email; mailed and
\* invited are whether the calls succeed, a failing call ends in the catch block
AdminWaiverRemind(caller, memberId, mailed, invited) ==
  /\ Receivable("waiver", MaxWaiverRequests)
  /\ Started("waiver")
  /\ LET pending == {u \in WaiversOfMember(memberId) : waivers[u].status # "signed"}
         docs == {waivers[u].external_document_id : u \in pending} \ {0}
     IN
     IF WaiverGate(caller) # 0
       THEN WaiverAnswer("waiver-remind", WaiverGate(caller), GateMessage(WaiverGate(caller)))
            /\ UNCHANGED <<outbox, signnow>>
     ELSE IF memberId = ""
       THEN WaiverAnswer("waiver-remind", 400, "member_id required") /\ UNCHANGED <<outbox, signnow>>
     ELSE IF memberId \notin members
       THEN WaiverAnswer("waiver-remind", 400, "no member") /\ UNCHANGED <<outbox, signnow>>
     ELSE IF pending = {}
       THEN WaiverAnswer("waiver-remind", 409, "No unsigned waivers for this member.")
            /\ UNCHANGED <<outbox, signnow>>
     ELSE IF ~mailed
       THEN WaiverAnswer("waiver-remind", 500, "Server error") /\ UNCHANGED <<outbox, signnow>>
     ELSE /\ outbox' = outbox \cup {Mail(memberId, NoToken)}
          /\ IF invited
             THEN /\ signnow' = [d \in DOMAIN signnow |->
                                   IF d \in docs THEN [signnow[d] EXCEPT !.invited = memberId]
                                   ELSE signnow[d]]
                  /\ WaiverAnswer("waiver-remind", 200, "ok")
             ELSE /\ UNCHANGED signnow
                  /\ WaiverAnswer("waiver-remind", 500, "Server error")
  /\ UNCHANGED <<waivers, notWaiverAdmin>>

WaiverMembers == {"", "a@x", "nobody"}
WaiverRecipients == {"", "g@x", "n@x"}

WaiverAdminStep ==
  \/ \E caller \in AdminCallers, memberId \in WaiverMembers, recipientEmail \in WaiverRecipients,
        ok \in BOOLEAN : AdminWaiverMarkSigned(caller, memberId, recipientEmail, ok)
  \/ \E caller \in AdminCallers, memberId \in WaiverMembers, ok \in BOOLEAN :
       AdminWaiverMarkSent(caller, memberId, ok)
  \/ \E caller \in AdminCallers, memberId \in WaiverMembers, fetched \in SUBSET {"inv_1", "inv_2"} :
       AdminWaiverCheck(caller, memberId, fetched)
  \/ \E caller \in AdminCallers, memberId \in WaiverMembers, mailed \in BOOLEAN, invited \in BOOLEAN :
       AdminWaiverRemind(caller, memberId, mailed, invited)

\* ------------------------------------------------------------------ document statuses
\* two waivers sent, the document of the first in any of the shapes SignNow returns
InitDocs ==
  /\ now = 0
  /\ \E doc \in DocShapes : BookedTwiceWith(doc)
  /\ NoRequests

\* the reconciliation job and the admin's check read the documents
NextDocs ==
  \/ JobStep
  \/ \E caller \in AdminCallers, memberId \in {"", "a@x"}, fetched \in SUBSET {"inv_1", "inv_2"} :
       AdminWaiverCheck(caller, memberId, fetched)

SpecDocs == InitDocs /\ [][NextDocs]_vars

\* ------------------------------------------------------------------ the admin's write endpoints
\* after two bookings with their waivers sent, or with an open booking issue
InitAdmin ==
  /\ now = 0
  /\ \/ BookedTwice
     \/ Shortfall
  /\ NoRequests

\* a request of this caller to one of the admin's write endpoints, about the
\* member a@x, the recipients g@x and n@x and the issue of inv_2
AdminWrite(caller) ==
  \/ \E amount \in {-1, 1} : AdminCreditsAdd(caller, "a@x", amount)
  \/ AdminCreditsRedeem(caller, "a@x")
  \/ \E variant \in {"revoking", "checking"} : AdminSendStart(variant, caller, "a@x", NULL, NULL)
  \/ \E recipientEmail \in {"g@x", "n@x"}, ok \in BOOLEAN :
       AdminWaiverMarkSigned(caller, "a@x", recipientEmail, ok)
  \/ \E ok \in BOOLEAN : AdminWaiverMarkSent(caller, "a@x", ok)
  \/ \E fetched \in SUBSET {"inv_1", "inv_2"} : AdminWaiverCheck(caller, "a@x", fetched)
  \/ \E mailed \in BOOLEAN, invited \in BOOLEAN : AdminWaiverRemind(caller, "a@x", mailed, invited)
  \/ \E resolution \in {"open", "handled"}, notes \in PatchNotes :
       IssuePatchStart(caller, "inv_2", resolution, notes)

\* every admin write endpoint, the steps of their handlers, and the signers of
\* the waivers
NextAdmin == \/ \E caller \in AdminCallers : AdminWrite(caller)
             \/ AdminSendSteps
             \/ PatchSteps({TRUE})
             \/ \E d \in DOMAIN signnow : SignDocument(d)

SpecAdmin == InitAdmin /\ [][NextAdmin]_vars

\* ================================================================== properties
GrantsNaming(id) ==
  {i \in DOMAIN ledger : ledger[i].entry_type = "grant" /\ ReasonContains(ledger[i].reason, id)}

LedgerMembers == members \cup {ledger[i].member_id : i \in DOMAIN ledger}

Credited(m) ==
  BalanceOf(SelectSeq(ledger, LAMBDA r : r.entry_type # "redeem"), m)

RedeemsFor(uri) ==
  {i \in DOMAIN ledger : ledger[i].entry_type = "redeem" /\ ReasonContains(ledger[i].reason, uri)}

IssueFor(uri) ==
  \E i \in IssuesOf(uri) : issues[i].error_code = "INSUFFICIENT_CREDITS"

C3_OneDeliveryProceeds ==
  \A e \in StripeEvents : hist.proceeded[e.id] <= 1

\* C4 (as claimed): whenever a side effect of an event exists (its ledger grant, its
\* guest profile, the mail with its booking link), the event id is in stripe_events.
C4_ProcessedBeforeEffects ==
  \A e \in StripeEvents :
    (\/ GrantsNaming(e.object) # {}
     \/ \E k \in DOMAIN guest_profiles : guest_profiles[k] = e.object
     \/ \E m \in outbox : \E i \in PassesOfSession(e.object) : booking_passes[i].token = m.token)
    => e.id \in stripe_events

\* C5 (as claimed): for an invoice.payment_succeeded event at most one grant entry
\* of credits_ledger names its invoice, however often the event is delivered.
C5_OneGrantPerInvoice ==
  \A e \in StripeEvents :
    e.type = "invoice.payment_succeeded" => Cardinality(GrantsNaming(e.object)) <= 1

\* C6: once a delivery of a paid one-time checkout.session.completed event has
\* returned past its grant stage, a later delivery of the same event never appends
\* to credits_ledger (so the balance stays what it was), and as long as deliveries
\* of the event did not overlap exactly one grant names its session.
C6_ReplayGrantsOnce ==
  /\ [](\A e \in StripeEvents :
          (IsPaidOneTime(e) /\ e.id \in hist.pastGrant /\ e.id \notin hist.overlapped)
          => Cardinality(GrantsNaming(e.object)) = 1)
  /\ [][\A d \in StripeIds :
          (sd[d].late /\ IsPaidOneTime(sd[d].ev) /\ sd'[d] # sd[d]) => ledger' = ledger]_vars

\* C6 witness: a replay got as far as the grant check and was answered
C6_Witness ==
  /\ answered.kind = "stripe" /\ answered.late
  /\ answered.body = "OK (pass already existed)"
  /\ answered.event \notin hist.overlapped
  /\ \E e \in StripeEvents :
       e.id = answered.event /\ IsPaidOneTime(e) /\ Cardinality(GrantsNaming(e.object)) = 1

\* C7: a redeem request that arrives after a request for the same token was
\* redirected to the scheduler is answered 409 and is not redirected.
C7_UsedAfterRedeem ==
  /\ \A r \in RedeemIds : rq[r].pc = "update" => ~rq[r].late
  /\ (answered.kind = "redeem" /\ answered.late)
       => (answered.status = 409 /\ answered.redirect = NULL)

\* C7 witness: such a request was answered, the pass having expired meanwhile
C7_Witness ==
  /\ answered.kind = "redeem" /\ answered.late /\ answered.status = 409
  /\ \E i \in PassesOfToken(answered.token) : LinkExpired(booking_passes[i])

\* C8 (as claimed): of the requests for one token at most one is redirected to the
\* scheduler, also when they are handled concurrently.
C8_OneRedirectPerToken == hist.twice = {}

\* C9: a booking pass row whose used_at is set keeps that value in every step:
\* link redemption, Calendly consumption and the admin revoke leave it alone.
C9_UsedAtSetOnce ==
  [][\A i \in DOMAIN booking_passes :
       booking_passes[i].used_at # NoTime => booking_passes'[i].used_at = booking_passes[i].used_at]_vars

\* C9 witness: an update addressed a row that was used before
C9_Witness ==
  \E i \in hist.kept : booking_passes[i].used_at # NoTime /\ booking_passes[i].used_at < now

Live(pass) == pass.used_at = NoTime /\ ~LinkExpired(pass)

\* C10 (as claimed): no email has two booking passes that are unused and unexpired.
C10_OneLivePassPerEmail ==
  \A i, j \in DOMAIN booking_passes :
    (booking_passes[i].email = booking_passes[j].email /\ Live(booking_passes[i]) /\ Live(booking_passes[j]))
    => i = j

\* C11 (as claimed): every row inserted into booking_passes holds no raw token;
\* the token is stored only as a hash.
C11_NoRawTokenStored ==
  [][Len(booking_passes') > Len(booking_passes)
       => booking_passes'[Len(booking_passes')].token = NoToken]_vars

C13_ClickedPassEmailDebited ==
  \A c \in CalendlyIds :
    (/\ cd[c].pc = "rpc_redeem"
     /\ cd[c].ev.token # NoToken
     /\ cd[c].ev.token \in hist.redirected)
    => \A i \in PassesOfToken(cd[c].ev.token) :
         booking_passes[i].email # cd[c].ev.email => cd[c].redeemEmail = booking_passes[i].email

C15_FailedRedemptionAnswered200 ==
  [][\A c \in CalendlyIds :
       (/\ cd[c].pc # "idle" /\ cd'[c].pc = "idle"
        /\ cd[c].ev.event = "invitee.created"
        /\ cd[c].rpc \notin {NULL, "ok"})
       => answered'.kind = "calendly" /\ answered'.status = 200]_vars

\* C15 witness: a delivery that failed with INSUFFICIENT_CREDITS was answered 200
\* although its issue row could not be written
C15_Witness ==
  /\ answered.kind = "calendly" /\ answered.status = 200
  /\ answered.body = "INSUFFICIENT_CREDITS"
  /\ IssuesOf(answered.event) = {}
  /\ RedeemsFor(answered.event) = {}

\* the invitee URIs of the deliveries
InviteeUris == {b.uri : b \in {x \in CalendlyBodies : x.event \in {"invitee.created", "invitee.canceled"}}}

\* C16: at every time, whatever deliveries of invitee.created were made, at most
\* one redeem entry of the ledger is tied to one invitee URI.
C16_OneRedeemPerUri ==
  \A uri \in InviteeUris : Cardinality(RedeemsFor(uri)) <= 1

\* C16 witness: a repeated invitee.created delivery for a booking that has its
\* redeem entry was answered, while its member had a credit left to redeem
C16_Witness ==
  /\ answered.kind = "calendly" /\ answered.body = "DUPLICATE_RSVP"
  /\ [uri |-> answered.event, redeemer |-> "a@x"] \in hist.created
  /\ Cardinality(RedeemsFor(answered.event)) = 1
  /\ BalanceOf(ledger, "a@x") >= 1

\* the refund entries of the ledger tied to an invitee uri
RefundsFor(uri) ==
  {i \in DOMAIN ledger : ledger[i].entry_type = "refund" /\ ReasonContains(ledger[i].reason, uri)}

\* C17: when an invitee.canceled delivery calls cancel_rsvp_for_calendly for an
\* invitee URI that has a redeem entry and no refund yet, that step appends one
\* refund entry for the member of the redeem entry, tied to the URI, and no step
\* of an invitee.canceled delivery changes a waiver row.
C17_CancelRefundsKeepsWaiver ==
  [][\A c \in CalendlyIds :
       (cd[c].pc = "rpc_cancel" /\ cd'[c].pc = "idle")
       => /\ waivers' = waivers
          /\ (RedeemsFor(cd[c].ev.uri) # {} /\ RefundsFor(cd[c].ev.uri) = {})
             => /\ Len(ledger') = Len(ledger) + 1
                /\ SubSeq(ledger', 1, Len(ledger)) = ledger
                /\ ledger'[Len(ledger')].entry_type = "refund"
                /\ ledger'[Len(ledger')].quantity = 1
                /\ ReasonContains(ledger'[Len(ledger')].reason, cd[c].ev.uri)
                /\ \A i \in RedeemsFor(cd[c].ev.uri) :
                     ledger'[Len(ledger')].member_id = ledger[i].member_id]_vars

\* C17 witness: the guest's booking inv_1, redeemed for a@x and with its waiver
\* sent, was canceled: a@x has the refund and the waiver row is as it was sent
C17_Witness ==
  /\ answered.kind = "calendly" /\ answered.body = "canceled" /\ answered.event = "inv_1"
  /\ \E i \in RefundsFor("inv_1") : ledger[i].member_id = "a@x"
  /\ \E i \in RedeemsFor("inv_1") : ledger[i].member_id = "a@x"
  /\ "inv_1" \in DOMAIN waivers
  /\ waivers["inv_1"].status = "sent" /\ waivers["inv_1"].external_document_id # 0

\* C18: at every time, over any deliveries of invitee.created and
\* invitee.canceled, an invitee URI has at most one refund entry and never more
\* refund entries than redeem entries.
C18_CancellationTerminal ==
  \A uri \in InviteeUris :
    /\ Cardinality(RefundsFor(uri)) <= 1
    /\ Cardinality(RefundsFor(uri)) <= Cardinality(RedeemsFor(uri))

\* C18 witness: a cancellation delivered again for a booking that was redeemed and
\* refunded was answered, and the booking still has its one refund
C18_Witness ==
  /\ answered.kind = "calendly" /\ answered.body = "RSVP_NOT_FOUND"
  /\ Cardinality(RefundsFor(answered.event)) = 1
  /\ Cardinality(RedeemsFor(answered.event)) = 1
  /\ rsvps[answered.event].status = "canceled"

\* C19: an invitee.canceled delivery that calls cancel_rsvp_for_calendly for an
\* invitee URI without a redeem entry is answered 200 and its steps change no
\* table: not the ledger, not the rsvps, issues, waivers or booking passes; an
\* invitee.created delivery for the URI that comes after it is served as usual.
C19_CancelWithoutRedemptionNoOp ==
  [][\A c \in CalendlyIds :
       (/\ cd[c].pc = "rpc_cancel" /\ cd'[c].pc = "idle"
        /\ RedeemsFor(cd[c].ev.uri) = {})
       => /\ answered'.kind = "calendly" /\ answered'.status = 200
          /\ <<db, bookings>>' = <<db, bookings>>]_vars

\* C19 witness: the cancellation of a booking that has no rsvp and no redeem entry
\* was answered with the procedure's error and status 200, while the
\* invitee.created delivery of that booking is still to call the procedure
C19_Witness ==
  /\ answered.kind = "calendly" /\ answered.status = 200 /\ answered.body = "RSVP_NOT_FOUND"
  /\ RedeemsFor(answered.event) = {} /\ RefundsFor(answered.event) = {}
  /\ answered.event \notin DOMAIN rsvps
  /\ \E c \in CalendlyIds : cd[c].pc = "rpc_redeem" /\ cd[c].ev.uri = answered.event

\* C20 (as claimed): no step takes a waiver row that is signed (status "signed"
\* or signed_at set) back: the row stays, a status "signed" stays "signed", a
\* signed_at that is set stays as it is; and a run of the reconciliation job
\* leaves every signed row unchanged.
C20_WaiverNeverRegresses ==
  [][\A u \in DOMAIN waivers :
       (waivers[u].status = "signed" \/ waivers[u].signed_at # NoTime)
       => /\ u \in DOMAIN waivers'
          /\ waivers[u].status = "signed" => waivers'[u].status = "signed"
          /\ waivers[u].signed_at # NoTime => waivers'[u].signed_at = waivers[u].signed_at]_vars

\* C21 (as claimed): once a waiver row has its external_document_id, no step
\* replaces it: the row stays and keeps the document id it was given.
C21_DocumentIdWrittenOnce ==
  [][\A u \in DOMAIN waivers :
       waivers[u].external_document_id # 0
       => /\ u \in DOMAIN waivers'
          /\ waivers'[u].external_document_id = waivers[u].external_document_id]_vars

\* C22 (as claimed): the invite of the waiver document a delivery sent after its
\* successful redemption is addressed to the email the credit was redeemed for.
C22_InviteToRedeemingEmail ==
  \A c \in CalendlyIds :
    (cd[c].pc \in {"waiver_member", "waiver_upsert"} /\ cd[c].rpc = "ok")
    => signnow[cd[c].doc].invited = cd[c].redeemEmail

\* C23: in a run of the reconciliation job every scanned waiver is still to be
\* polled, was polled, or has its entry in the run's error list; the loop is left
\* only when no scanned waiver is still to be polled, and then the run is
\* completed, not failed: a failure on one waiver does not end the run.
C23_JobToleratesItemFailure ==
  /\ [](job.status \in {"running", "completed", "completed_with_errors"}
          => /\ job.todo \cup job.checked \cup job.errors = job.scanned
             /\ job.checked \cap job.errors = {}
             /\ job.pc = "idle" => job.todo = {})
  /\ [][(job.pc = "loop" /\ job'.pc # "loop")
          => /\ job.todo = {}
             /\ job'.status = IF job.errors # {} THEN "completed_with_errors" ELSE "completed"
             /\ job'.scanned = job.scanned /\ job'.errors = job.errors /\ job'.checked = job.checked]_vars

\* C23 witness: a run over two waivers is completed with the error of one of them
\* on its list and the other one polled and set to signed
C23_Witness ==
  /\ job.pc = "idle" /\ job.status = "completed_with_errors"
  /\ Cardinality(job.scanned) = 2
  /\ \E u \in job.errors : waivers[u].status = "sent"
  /\ \E u \in job.checked : waivers[u].status = "signed"

\* C24: while an invitee.created delivery whose redemption succeeded is being
\* handled, its invitee URI has its redeem entry and no step removes or changes an
\* entry of the ledger, whatever fails in the waiver dispatch (lookup, template
\* copy, invite, upsert); and the delivery is answered 200 as redeemed.
C24_WaiverFailureKeepsRedemption ==
  /\ [](\A c \in CalendlyIds :
          (cd[c].pc # "idle" /\ cd[c].rpc = "ok") => RedeemsFor(cd[c].ev.uri) # {})
  /\ [][\A c \in CalendlyIds :
          (cd[c].pc # "idle" /\ cd[c].rpc = "ok")
          => /\ Len(ledger') >= Len(ledger)
             /\ SubSeq(ledger', 1, Len(ledger)) = ledger
             /\ cd'[c].pc = "idle" => (answered'.status = 200 /\ answered'.body = "redeemed")]_vars

\* C24 witness: a delivery was answered 200 as redeemed, its redeem entry is in the
\* ledger, and its waiver dispatch failed: there is no waiver row for its booking
C24_Witness ==
  /\ answered.kind = "calendly" /\ answered.status = 200 /\ answered.body = "redeemed"
  /\ RedeemsFor(answered.event) # {}
  /\ answered.event \notin DOMAIN waivers
  /\ \A c \in CalendlyIds : cd[c].pc = "idle"

C26_LedgerAppendOnly ==
  [][/\ Len(ledger') >= Len(ledger)
     /\ SubSeq(ledger', 1, Len(ledger)) = ledger]_vars

\* C26 witness: the ledger has grown by a Stripe grant, a redemption and the
\* entry of a manual admin operation, one after the other
C26_Witness ==
  /\ Len(ledger) >= 3
  /\ \E i, j, k \in DOMAIN ledger :
       /\ i < j /\ j # k /\ i # k
       /\ ledger[i].entry_type = "grant" /\ ledger[i].reason.event # NULL
       /\ ledger[j].entry_type = "redeem"
       /\ ledger[k].reason \in {ManualReason("Manual grant"), ManualReason("Manual redemption (-1)")}

\* sum of the quantities of a member's ledger entries of one type
QuantityOf(memberId, type) ==
  LET sel == SelectSeq(ledger, LAMBDA r : r.member_id = memberId /\ r.entry_type = type)
  IN SumSeq([i \in DOMAIN sel |-> sel[i].quantity])

\* C27: at every point in time and for every member, the balance of the view
\* v_member_credit_balance and the balance the admin send-booking-link endpoint
\* computes from the ledger rows equal sum of grants plus sum of refunds minus sum
\* of redeems over the member's entries; the endpoint goes on to issue a link
\* exactly when that sum is at least 1.
C27_BalanceIsSignedSum ==
  /\ [](\A m \in LedgerMembers \cup {"nobody"} :
          LET sum == QuantityOf(m, "grant") + QuantityOf(m, "refund") - QuantityOf(m, "redeem")
          IN /\ BalanceOf(ledger, m) = sum
             /\ v_member_credit_balance(m) = sum)
  /\ [][\A a \in DOMAIN ad :
          (ad[a].pc = "balance" /\ ad'[a].pc # "balance")
          => LET m == ad[a].member_id
                 sum == QuantityOf(m, "grant") + QuantityOf(m, "refund") - QuantityOf(m, "redeem")
             IN (ad'[a].pc = "insert_token") <=> (sum >= 1)]_vars

\* C27 witness: the endpoint found a balance of at least 1 for a member whose
\* ledger holds a grant, a redemption and its refund
C27_Witness ==
  \E a \in DOMAIN ad :
    /\ ad[a].pc = "insert_token"
    /\ LET m == ad[a].member_id
       IN /\ QuantityOf(m, "grant") >= 1
          /\ QuantityOf(m, "redeem") >= 1
          /\ QuantityOf(m, "refund") >= 1

\* the business reasons for which the ledger rejects a manual operation
LedgerRejections == {"INSUFFICIENT_CREDITS", "INVALID_QUANTITY", "MEMBER_NOT_FOUND"}

\* C29 (as claimed): a manual add or redeem that the ledger rejects for a business
\* reason is answered with a 4xx status carrying the error message, and the
\* ledger is left unchanged.
C29_BusinessFailureIs4xx ==
  [][(/\ started'.credits = started.credits + 1
      /\ answered'.kind \in {"credits-add", "credits-redeem"}
      /\ answered'.body \in LedgerRejections)
     => /\ answered'.status \in 400..499
        /\ ledger' = ledger]_vars

\* the history rows of an issue, in insertion order
HistoryOf(id) ==
  SelectSeq(calendly_booking_issue_history, LAMBDA h : h.issue_id = id)

\* C30 (as claimed): history rows are only appended; and once a PATCH request has
\* changed an issue and no PATCH request for that issue is being handled, the
\* issue's resolution and notes are those of its latest history row.
C30_ResolutionMatchesHistory ==
  /\ [](\A id \in DOMAIN resolutions :
          (\A p \in PatchIds : pd[p].pc = "idle" \/ pd[p].id # id)
          => /\ HistoryOf(id) # <<>>
             /\ LET last == HistoryOf(id)[Len(HistoryOf(id))]
                IN /\ last.resolution = resolutions[id].resolution
                   /\ last.notes = resolutions[id].notes)
  /\ [][/\ Len(calendly_booking_issue_history') >= Len(calendly_booking_issue_history)
        /\ SubSeq(calendly_booking_issue_history', 1, Len(calendly_booking_issue_history))
             = calendly_booking_issue_history]_vars

\* every table, and what was handed to the mail and signing providers
Tables ==
  <<members, ledger, stripe_events, guest_profiles, booking_passes, outbox, rsvps, issues, waivers,
    signnow, resolutions, calendly_booking_issue_history>>

ResolutionStates == {"open", "contacted_customer", "sent_pay_link", "canceled", "resolved_other"}

\* C31 (as claimed): in every reachable state the resolution stored for a booking
\* issue is one of open, contacted_customer, sent_pay_link, canceled,
\* resolved_other.
C31_ResolutionInClosedSet ==
  \A id \in DOMAIN resolutions : resolutions[id].resolution \in ResolutionStates

\* C32: the checkout.session.completed event of a subscription inserts no ledger
\* entry and no booking pass: no entry and no pass names its session; and when the
\* subscription's checkout event was handled and its invoice.payment_succeeded
\* event was handled by one delivery, the payment is credited by exactly one
\* grant, that of the invoice.
C32_SubscriptionCreditedByInvoice ==
  /\ GrantsNaming(CheckoutSub.object) = {}
  /\ \A i \in DOMAIN booking_passes : booking_passes[i].stripe_session_id # CheckoutSub.object
  /\ (/\ CheckoutSub.id \in stripe_events
      /\ InvoicePaid.id \in stripe_events
      /\ hist.proceeded[InvoicePaid.id] = 1)
     => Cardinality(GrantsNaming(InvoicePaid.object) \cup GrantsNaming(CheckoutSub.object)) = 1

\* C32 witness: both events of the subscription payment were handled and the
\* ledger holds the grant of the invoice
C32_Witness ==
  /\ CheckoutSub.id \in stripe_events
  /\ InvoicePaid.id \in stripe_events
  /\ hist.proceeded[CheckoutSub.id] = 1
  /\ hist.proceeded[InvoicePaid.id] = 1
  /\ GrantsNaming(InvoicePaid.object) # {}

\* C33: a paid one-time checkout.session.completed event that cannot be turned
\* into a credit count, or that has no customer email, is answered with a failure
\* status; no ledger entry and no booking pass names its session; and its event id
\* is never recorded as processed, so a redelivery is not answered "Already
\* processed" but handled again.
C33_UncreditedCheckoutFails ==
  \A e \in UncreditedEvents :
    /\ e.id \notin stripe_events
    /\ GrantsNaming(e.object) = {}
    /\ \A i \in DOMAIN booking_passes : booking_passes[i].stripe_session_id # e.object
    /\ \A d \in StripeIds : sd[d].ev # e
    /\ answered.event = e.id => answered.status = 500

\* C33 witness: the checkout without a credit count was delivered twice and
\* handled and refused both times
C33_Witness ==
  /\ hist.proceeded[CheckoutNoCredits.id] = 2
  /\ answered.event = CheckoutNoCredits.id
  /\ answered.body = "Handler Error: Unable to compute credits"

\* C34: for every document SignNow returns, the reconciliation job (looksSigned)
\* and the admin's check (looksCompleted, in both its variants) reach the same
\* signed / not-signed decision.
C34_SameDecision ==
  \A d \in DOMAIN signnow :
    /\ looksSignedOf(signnow[d].payload) = looksCompletedOf(signnow[d].payload)
    /\ looksSignedOf(signnow[d].payload) = looksCompletedByInvites(signnow[d].payload)

\* C34, on the rows: a waiver row the job marked signed is one the admin's check
\* would mark too, and the other way round
C34_SameRowsMarked ==
  \A u \in DOMAIN waivers :
    (waivers[u].status = "signed" /\ waivers[u].external_document_id \in DOMAIN signnow)
      => /\ looksSigned(waivers[u].external_document_id)
         /\ looksCompleted(waivers[u].external_document_id)

\* C35: a booking pass's used_at is set only by the step that consumes it after a
\* successful redeem_credit_for_calendly for a booking that carried its token, or
\* by the revocation of the earlier passes of its email when a new pass is
\* minted; never by the click on the link alone.
C35_UsedOnlyAfterRedemption ==
  [][\A i \in DOMAIN booking_passes :
       (booking_passes[i].used_at = NoTime /\ booking_passes'[i].used_at # NoTime)
       => \/ \E c \in CalendlyIds :
               /\ cd[c].pc = "pass_consume"
               /\ booking_passes[i].token = cd[c].ev.token
               /\ RedeemsFor(cd[c].ev.uri) # {}
          \/ \E a \in AdminIds :
               /\ ad[a].pc = "revoke"
               /\ booking_passes[i].email = ad[a].email]_vars

\* C36: for every Stripe checkout session, after any number of deliveries of its
\* checkout.session.completed event, one after the other, after a failed run or
\* at the same time, at most one booking_passes row carries its session id.
C36_OnePassPerSession ==
  \A e \in StripeEvents : Cardinality(PassesOfSession(e.object)) <= 1

\* the delivery's call of redeem_credit_for_calendly has failed
RedemptionFailed(q) == q.pc # "idle" /\ q.rpc # NULL /\ q.rpc # "ok"

\* C37: when the redemption for an invitee.created event fails, with insufficient
\* credits or any other error, no step of that delivery adds a ledger entry, marks
\* a booking pass used, creates or changes a waiver row or a booking, or calls
\* SignNow; the one table it may change is calendly_booking_issues, and after the
\* issue upsert the delivery is answered.
C37_FailedRedemptionFrame ==
  [][\A c \in CalendlyIds :
       (/\ cd'[c] # cd[c]
        /\ \/ RedemptionFailed(cd[c])
           \/ cd[c].pc = "rpc_redeem" /\ cd'[c].pc # "rsvp_name")
       => /\ UNCHANGED <<members, ledger, booking_passes, guest_profiles, outbox>>
          /\ UNCHANGED <<rsvps, waivers, signnow>>
          /\ cd'[c].pc \in {"idle", "issue_member", "issue_upsert"}]_vars

\* C37 witness: a booking that carried the token of an unused pass was answered
\* with insufficient credits; its issue is recorded and the pass is still unused
C37_Witness ==
  /\ answered.kind = "calendly"
  /\ answered.body = "INSUFFICIENT_CREDITS"
  /\ answered.token # NoToken
  /\ IssuesOf(answered.event) # {}
  /\ PassesOfToken(answered.token) # {}
  /\ \A i \in PassesOfToken(answered.token) : booking_passes[i].used_at = NoTime

\* C38: the resolution, handled_at and notes of a booking issue change only in
\* the update of a PATCH request, and only for the issue that request names; a
\* repeated insufficient-credits delivery for the same invitee URI, or any other
\* delivery, leaves them as they are.
C38_ResolutionOnlyByPatch ==
  [][resolutions' # resolutions
       => \E p \in PatchIds :
            /\ pd[p].pc = "update"
            /\ pd'[p].pc = "history"
            /\ \A id \in (DOMAIN resolutions \cup DOMAIN resolutions') \ {pd[p].id} :
                 /\ id \in DOMAIN resolutions /\ id \in DOMAIN resolutions'
                 /\ resolutions'[id] = resolutions[id]]_vars

\* C38 witness: the issue of inv_2 was set to contacted_customer by the admin, whose
\* request was answered, and after it another insufficient-credits delivery for
\* inv_2 upserted the issue and was answered
C38_Witness ==
  /\ "inv_2" \in DOMAIN resolutions
  /\ resolutions["inv_2"].resolution = "contacted_customer"
  /\ resolutions["inv_2"].handled_at # NoTime
  /\ \A p \in PatchIds : pd[p].pc = "idle"
  /\ answered.kind = "calendly"
  /\ answered.event = "inv_2"
  /\ answered.body = "INSUFFICIENT_CREDITS"
  /\ "inv_2" \in hist.reissued

\* the columns of an issue row no PATCH request has written: the table's defaults
IssueDefaults == [resolution |-> "open", notes |-> NULL, handled_at |-> NoTime]

\* resolution, notes and handled_at of the issue of an invitee URI
ResolutionOf(uri) == IF uri \in DOMAIN resolutions THEN resolutions[uri] ELSE IssueDefaults

\* C39: in every reachable state, for every booking issue, handled_at is null if
\* and only if its resolution is "open".
C39_HandledIffNotOpen ==
  \A i \in DOMAIN issues :
    LET row == ResolutionOf(issues[i].calendly_invitee_uri)
    IN (row.handled_at = NoTime) <=> (row.resolution = "open")

\* C39 witness: the issue of inv_2 was set to contacted_customer and set back to
\* open; its history holds the first and the row is open with handled_at null
C39_Witness ==
  /\ IssuesOf("inv_2") # {}
  /\ "inv_2" \in DOMAIN resolutions
  /\ resolutions["inv_2"].resolution = "open"
  /\ resolutions["inv_2"].handled_at = NoTime
  /\ \E h \in DOMAIN calendly_booking_issue_history :
       /\ calendly_booking_issue_history[h].issue_id = "inv_2"
       /\ calendly_booking_issue_history[h].resolution = "contacted_customer"
  /\ \A p \in PatchIds : pd[p].pc = "idle"

TerminalStatuses == {"completed", "completed_with_errors", "failed"}

\* C40: every run of the reconciliation job that created its waiver_sync_runs row
\* ends with the row in a terminal status: a row that is running is followed by a
\* terminal status, and no run has answered while its row is still running.
C40_RunEndsTerminal ==
  /\ [](job.pc = "idle" => job.status # "running")
  /\ (job.status = "running") ~> (job.status \in TerminalStatuses)

\* C40, the status of a finished run: completed_with_errors exactly when an error
\* of a waiver was recorded
C40_ErrorsIffCompletedWithErrors ==
  (job.pc = "idle" /\ job.status \in {"completed", "completed_with_errors"})
    => (job.status = "completed_with_errors" <=> job.errors # {})

====
